---- MODULE Spec2Model ----
(***************************************************************************)
(* Model of the Apify AI Sandbox service (apify/actor-code-sandbox):       *)
(* startup sequence and readiness (sandbox/src/main.ts), POST /exec with   *)
(* runCommand / executeCode, and the /fs/* endpoints and MCP file tools    *)
(* over a small filesystem with symlinks (operations.ts, mcp.ts).          *)
(* Path strings are sequences of one-character strings, so that            *)
(* path.normalize, path.join and String.startsWith are computed.           *)
(***************************************************************************)
EXTENDS Integers, Sequences, FiniteSets, TLC

VARIABLES
    isLocalMode,            \* main.ts:40  process.env.MODE === 'local'
    input,                  \* main.ts:55  Actor input
    pc,                     \* position of the top-level startup code of main.ts
    restoredFromMigration,  \* main.ts:64
    initializationComplete, \* main.ts:35
    initializationError,    \* main.ts:36
    startupMarker,          \* persistence: startup marker file written
    migrationHandler,       \* main.ts:143 'migrating' handler registered
    startupLog,             \* history: startup events in the order they happened
    exec,                   \* the child process of the /exec request in flight
    fs,                     \* the filesystem: absolute path (segments) -> node
    lastReq,                \* the last HTTP / MCP request handled
    lastResp,               \* and the response it got
    now,                    \* Date.now(), in milliseconds since the process started
    lastActivityAt,         \* main.ts:37
    idleTimer,              \* main.ts:869 the setInterval of the idle check
    exit,                   \* main.ts:874 Actor.exit() called by the idle check
    shellSocket,            \* main.ts:786 the client socket of a proxied /shell WebSocket
    readyAt,                \* history: the time at which initialization completed
    ttyd,                   \* main.ts:729-752 the PTY server child and its respawn timer
    disk,                   \* the container's files as find and tar see them
    pkgs,                   \* the apt and pip packages installed on top of the image
    kv,                     \* the key-value store: migration manifest and tarball
    boot,                   \* history: the number of this start of the container
    userWrote,              \* history: what the user last wrote to each path
    migrating,              \* history: how the 'migrating' handler of this start went
    mcp,                    \* main.ts:628-655 the MCP servers made for POST /mcp
    tmpFiles,               \* the script files in /tmp: name -> what wrote it
    runs,                   \* the executeCode / executeInitScript calls in flight
    httpRes                 \* res: the response of the /shell, /mcp or ZIP request under way

vars == <<isLocalMode, input, pc, restoredFromMigration, initializationComplete,
          initializationError, startupMarker, migrationHandler, startupLog,
          exec, fs, lastReq, lastResp, now, lastActivityAt, idleTimer, exit,
          shellSocket, readyAt, ttyd, disk, pkgs, kv, boot, userWrote, migrating,
          mcp, tmpFiles, runs, httpRes>>

\* the processes and stores beside the HTTP service
migVars == <<disk, pkgs, kv, boot, userWrote, migrating>>
\* the MCP servers and the script files of the executions
reqVars == <<mcp, tmpFiles, runs, httpRes>>

auxVars == <<ttyd, migVars, reqVars>>

\* the clock, the idle monitor and the terminal socket, apart from lastActivityAt
idleVars == <<now, idleTimer, exit, shellSocket, readyAt>>

\* the variables of the startup sequence
startVars == <<isLocalMode, input, pc, restoredFromMigration, initializationComplete,
               initializationError, startupMarker, migrationHandler, startupLog>>

lifeVars == <<isLocalMode, input, pc, restoredFromMigration, initializationComplete,
              initializationError, startupMarker, migrationHandler, startupLog,
              idleVars, auxVars>>

(***************************************************************************)
(* Path strings (node:path, posix) as sequences of characters              *)
(***************************************************************************)
Slash == "/"
Dot == <<".">>
DotDot == <<".", ".">>

\* consts.ts: SANDBOX_DIR = '/sandbox'
SegSandbox == <<"s", "a", "n", "d", "b", "o", "x">>
SANDBOX_DIR == <<Slash>> \o SegSandbox
\* consts.ts: JS_TS_CODE_DIR = '/sandbox/js-ts', PYTHON_CODE_DIR = '/sandbox/py'
JS_TS_CODE_DIR == SANDBOX_DIR \o <<Slash, "j", "s", "-", "t", "s">>
PYTHON_CODE_DIR == SANDBOX_DIR \o <<Slash, "p", "y">>

\* String.prototype.startsWith
startsWith(s, prefix) ==
    /\ Len(s) >= Len(prefix)
    /\ SubSeq(s, 1, Len(prefix)) = prefix

\* path.isAbsolute
isAbsolute(p) == Len(p) > 0 /\ p[1] = Slash

\* p.split('/') : the segments between the separators, empty ones included
RECURSIVE SplitFrom(_, _, _, _)
SplitFrom(p, i, cur, acc) ==
    IF i > Len(p) THEN Append(acc, cur)
    ELSE IF p[i] = Slash THEN SplitFrom(p, i + 1, <<>>, Append(acc, cur))
    ELSE SplitFrom(p, i + 1, Append(cur, p[i]), acc)

Split(p) == SplitFrom(p, 1, <<>>, <<>>)

\* segs.join('/')
RECURSIVE JoinSegs(_)
JoinSegs(segs) ==
    IF segs = <<>> THEN <<>>
    ELSE IF Len(segs) = 1 THEN segs[1]
    ELSE segs[1] \o <<Slash>> \o JoinSegs(Tail(segs))

\* node:path normalizeString: drops '' and '.', resolves '..' lexically
RECURSIVE normalizeString(_, _, _)
normalizeString(segs, res, allowAboveRoot) ==
    IF segs = <<>> THEN res
    ELSE LET s == Head(segs)
             t == Tail(segs)
         IN  IF s = <<>> \/ s = Dot THEN normalizeString(t, res, allowAboveRoot)
             ELSE IF s = DotDot
                  THEN IF Len(res) > 0 /\ res[Len(res)] # DotDot
                       THEN normalizeString(t, SubSeq(res, 1, Len(res) - 1), allowAboveRoot)
                       ELSE IF allowAboveRoot
                            THEN normalizeString(t, Append(res, s), allowAboveRoot)
                            ELSE normalizeString(t, res, allowAboveRoot)
                  ELSE normalizeString(t, Append(res, s), allowAboveRoot)

\* path.normalize (posix): lexical, keeps a trailing separator
normalize(p) ==
    IF Len(p) = 0 THEN Dot
    ELSE LET abs == isAbsolute(p)
             trailing == p[Len(p)] = Slash
             body == JoinSegs(normalizeString(Split(p), <<>>, ~abs))
         IN  IF Len(body) = 0
             THEN IF abs THEN <<Slash>> ELSE IF trailing THEN <<".", Slash>> ELSE Dot
             ELSE (IF abs THEN <<Slash>> ELSE <<>>) \o body \o
                  (IF trailing THEN <<Slash>> ELSE <<>>)

\* path.join(a, b): the non-empty arguments joined by '/', then normalized
join(a, b) ==
    LET joined == IF Len(a) = 0 THEN b
                  ELSE IF Len(b) = 0 THEN a
                  ELSE a \o <<Slash>> \o b
    IN  IF Len(joined) = 0 THEN Dot ELSE normalize(joined)

\* drop the empty segments at the end of a segment list
RECURSIVE DropTrailingEmpty(_)
DropTrailingEmpty(segs) ==
    IF segs # <<>> /\ segs[Len(segs)] = <<>>
    THEN DropTrailingEmpty(SubSeq(segs, 1, Len(segs) - 1))
    ELSE segs

\* path.dirname of an absolute path
dirname(p) ==
    LET segs == DropTrailingEmpty(Split(p))
        up == IF segs = <<>> THEN <<>>
              ELSE DropTrailingEmpty(SubSeq(segs, 1, Len(segs) - 1))
    IN  IF Len(JoinSegs(up)) = 0 THEN <<Slash>> ELSE JoinSegs(up)

\* the expression  path.isAbsolute(p) ? p : path.join(SANDBOX_DIR, p)
resolveAgainstSandbox(p) == IF isAbsolute(p) THEN p ELSE join(SANDBOX_DIR, p)

\* resolveDirectoryPath: as above, an absent or empty path (<<>>) is SANDBOX_DIR
resolveDirectoryPath(p) ==
    IF Len(p) = 0 THEN SANDBOX_DIR ELSE resolveAgainstSandbox(p)

\* the absolute path string of a filesystem location (a list of names)
ToStr(loc) == <<Slash>> \o JoinSegs(loc)

(***************************************************************************)
(* JavaScript values that mix types: a number, null or a string            *)
(***************************************************************************)
Num(n) == [t |-> "num", n |-> n, s |-> ""]
Str(x) == [t |-> "str", n |-> 0, s |-> x]
Null == [t |-> "null", n |-> 0, s |-> ""]

\* JavaScript truthiness of such a value
Truthy(v) == (v.t = "num" /\ v.n # 0) \/ (v.t = "str" /\ v.s # "")

\* (variant: err.code || 0)
CodeOr0(code) == IF Truthy(code) THEN code ELSE Num(0)

\* the expression  err.code || 1
CodeOr1(code) == IF Truthy(code) THEN code ELSE Num(1)

\* the expression  exitCode !== 0
NonZero(v) == ~(v.t = "num" /\ v.n = 0)

(***************************************************************************)
(* Bounds                                                                  *)
(***************************************************************************)
MaxExitCode == 2    \* exit statuses a child may end with: 0..MaxExitCode
NumTempIds == 2     \* values crypto.randomBytes(6) is drawn from
MaxCalls == 2       \* executeCode calls made in a run

TempIds == 1..NumTempIds

(***************************************************************************)
(* Startup: the top-level code of sandbox/src/main.ts                      *)
(***************************************************************************)
(***************************************************************************)
(* The clock and the idle monitor (main.ts:865-878)                        *)
(***************************************************************************)
MsPerSec == 1000                \* main.ts:686, 872
CheckIntervalMs == 30000        \* main.ts:877  setInterval(..., 30000)
DefaultIdleTimeoutSecs == 600   \* main.ts:867  input?.idleTimeoutSeconds ?? 600
MaxChecks == 4                  \* the clock runs for MaxChecks check intervals

\* the clock is read in steps of half a check interval
ClockStep == CheckIntervalMs \div 2

\* input.idleTimeoutSeconds: absent, zero, negative, one and one and a half
\* check intervals
IdleTimeouts ==
    {Null, Num(0), Num(0 - CheckIntervalMs \div MsPerSec),
     Num(CheckIntervalMs \div MsPerSec), Num((CheckIntervalMs + ClockStep) \div MsPerSec)}

\* main.ts:867  const idleTimeoutSecs = input?.idleTimeoutSeconds ?? 600
idleTimeoutSecs(inp) ==
    IF inp.idleTimeoutSeconds.t = "null" THEN DefaultIdleTimeoutSecs
    ELSE inp.idleTimeoutSeconds.n

\* main.ts:746  setTimeout(spawnTtyd, 5000)
RespawnDelayMs == 5000

\* the PTY server child: not spawned, "spawned" (running, or about to report that
\* it could not be started), "failed" (never started), or "waiting" (exited, the
\* respawn timer set); exits counts the 'exit' events so far, alive the
\* children spawned and not yet ended, timers the respawn timers pending
NoTtyd == [state |-> "none", exits |-> 0, code |-> Null, exitedAt |-> 0,
           respawnAt |-> 0, spawnedAt |-> 0, alive |-> 0, timers |-> 0]

\* main.ts:729-748  spawnTtyd(): spawn('ttyd', ...) with its two listeners
SpawnedTtyd(t, at) == [t EXCEPT !.state = "spawned", !.spawnedAt = at, !.alive = @ + 1]

NoTimer == [set |-> FALSE, at |-> 0]
\* the idle exit: triggered by the first call of Actor.exit (at, idleTimeMs and
\* minutes are those of that call), calls counts the calls, ended: the
\* process has exited
NoExit == [triggered |-> FALSE, at |-> 0, idleTimeMs |-> 0, minutes |-> 0,
           calls |-> 0, ended |-> FALSE]
NoSocket == [open |-> FALSE, lastByteAt |-> 0, lastFrom |-> "none"]

InitScripts == {"none", "blank", "script"}

\* input?.initShellScript && input.initShellScript.trim().length > 0
HasInitScript == input.initShellScript = "script"

NoError == <<>>

\* the outcomes of the child  bash /tmp/init-script-*.sh  under exec()
InitScriptErrors ==
    {[code |-> Num(n), killed |-> FALSE] : n \in 1..MaxExitCode}
    \cup {[code |-> Null, killed |-> TRUE]}         \* killed at INIT_SCRIPT_TIMEOUT
    \cup {[code |-> Str("ENOENT"), killed |-> FALSE]} \* bash could not be spawned

\* the error fs.writeFile or fs.chmod rejects with
WriteError == [code |-> Str("ENOSPC"), killed |-> FALSE]

Log(e) == startupLog' = Append(startupLog, e)

(***************************************************************************)
(* The script files in /tmp: a set of files, at most one of each name      *)
(***************************************************************************)
\* (variant: the file is named after its content)
codeTempFileOfContent(uniqueId, code, language) == <<"code", code, language>>

\* operations.ts executeCode (part_012:459-466):
\* path.join('/tmp', `code-${uniqueId}${fileExtensions[language]}`)
codeTempFile(uniqueId, code, language) == <<"code", uniqueId, language>>

\* environment.ts:393-395  path.join('/tmp', `init-script-${uniqueId}.sh`)
initScriptTempFile(uniqueId) == <<"init-script", uniqueId, "sh">>

\* what becomes of  await fs.writeFile(tempFile, ...)  (and, for the init
\* script, fs.chmod): done; rejected before the file was opened; rejected after
\* open(tempFile, 'w') had created or truncated it (disk full, I/O error)
WriteOutcomes == {"written", "not created", "created only"}

\* fs.writeFile(name, content): flag 'w' replaces a file of that name
writeTempFile(tmp, name, content, by, outcome) ==
    IF outcome = "not created" THEN tmp
    ELSE {f \in tmp : f.name # name}
            \cup {[name |-> name, by |-> by,
                   content |-> IF outcome = "written" THEN content ELSE "partial"]}

\* fs.unlink(name) inside try / catch: a missing file is logged and passed over
unlinkTempFile(tmp, name) == {f \in tmp : f.name # name}

\* tempFiles.push(tempFile) comes after the awaited write (part_012:469-470,
\* environment.ts:398-400): the finally block unlinks only what was pushed
cleanedUp(name, outcome) == IF outcome = "written" THEN {name} ELSE {}

RECURSIVE unlinkAll(_, _)
unlinkAll(tmp, names) ==
    IF names = {} THEN tmp
    ELSE LET name == CHOOSE n \in names : TRUE
         IN  unlinkAll(unlinkTempFile(tmp, name), names \ {name})

\* executeInitScript's use of /tmp (environment.ts:380-460), nothing else
\* running beside it: the script file is written, made executable, run through
\* bash and, if it was pushed, unlinked
executeInitScriptTemp(tmp, uniqueId, outcome) ==
    LET tempFile == initScriptTempFile(uniqueId)
    IN  unlinkAll(writeTempFile(tmp, tempFile, "init", 0, outcome),
                  cleanedUp(tempFile, outcome))

(***************************************************************************)
(* Migration persistence (persistence.ts): the files that find and tar     *)
(* see, the packages, and the key-value store                              *)
(***************************************************************************)
\* consts.ts:103-114  MIGRATION_EXCLUDED_PATHS
MIGRATION_EXCLUDED_PATHS ==
    {<<"/", "p", "r", "o", "c">>,
     <<"/", "s", "y", "s">>,
     <<"/", "d", "e", "v">>,
     <<"/", "r", "u", "n">>,
     <<"/", "t", "m", "p">>,
     <<"/", "v", "a", "r", "/", "c", "a", "c", "h", "e", "/", "a", "p", "t">>,
     <<"/", "v", "a", "r", "/", "l", "i", "b", "/", "a", "p", "t", "/", "l", "i", "s", "t", "s">>,
     <<"/", "v", "a", "r", "/", "l", "i", "b", "/", "d", "p", "k", "g">>,
     <<"/", "s", "a", "n", "d", "b", "o", "x", "/", "j", "s", "-", "t", "s", "/", "n", "o", "d", "e", "_", "m", "o", "d", "u", "l", "e", "s">>,
     <<"/", "s", "a", "n", "d", "b", "o", "x", "/", "p", "y", "/", "v", "e", "n", "v">>}

\* the paths the user's commands write to
UserFileA == <<"/", "s", "a", "n", "d", "b", "o", "x", "/", "a">>
RunDataR == <<"/", "r", "u", "n", "d", "a", "t", "a", "/", "r">>
MigPaths == {UserFileA, RunDataR}

\* consts.ts  JS_TS_CODE_DIR/package.json, where npm install --save records
\* the dependencies
PACKAGE_JSON ==
    <<"/", "s", "a", "n", "d", "b", "o", "x", "/", "j", "s", "-", "t", "s", "/",
      "p", "a", "c", "k", "a", "g", "e", ".", "j", "s", "o", "n">>

AptPkgs == {"jq"}
PipPkgs == {"requests"}
\* the package a command installs with npm, and the one the Actor input names
NpmPkgs == {"zod"}
InputNodeDependencies == {"axios"}

\* a regular file: content, permission bits, and mtime as the number of the
\* start during which it was stamped (0: a time before every start, as an
\* extraction that preserves timestamps leaves it)
NoFile == [exists |-> FALSE, data |-> 0, mode |-> 0, mtime |-> 0]
RegularFile(data, mode, mtime) ==
    [exists |-> TRUE, data |-> data, mode |-> mode, mtime |-> mtime]

\* the image: none of the paths exists, nothing is installed on top
ImageDisk == [p \in MigPaths |-> NoFile]
\* the image's package.json (Dockerfile): none of the packages modelled here;
\* newer: written after the startup marker of this start
ImagePackageJson == [deps |-> {}, newer |-> FALSE]
NoPkgs == [apt |-> {}, pip |-> {}, npm |-> {}, packageJson |-> ImagePackageJson,
           failed |-> {}]

\* nothing written or installed by the user yet
NoWrites == [files |-> ImageDisk, apt |-> {}, pip |-> {}, npm |-> {}]

\* the store of a run that has not been migrated
NoManifest == [present |-> FALSE, createdAt |-> 0, apt |-> {}, pip |-> {}, paths |-> {}]
NoTarball == [present |-> FALSE, createdAt |-> 0, files |-> ImageDisk,
              packageJson |-> [present |-> FALSE, deps |-> {}]]
NoSnapshot == [manifest |-> NoManifest, tarball |-> NoTarball]

NotMigrating == [handled |-> FALSE, threw |-> FALSE, caught |-> "nothing"]

\* (variant: only files stamped at a later start count as newer)
newerThanMarkerLater(file, markerBoot) == file.mtime > markerBoot

\* find ... -type f -newer MARKER: the marker is written at the start that
\* created it, before any request
newerThanMarker(file, markerBoot) == file.mtime >= markerBoot

\* part_014:73-76  -path 'P' -prune: P itself and all below it are skipped
prunedByFind(path) ==
    \E excluded \in MIGRATION_EXCLUDED_PATHS :
        path = excluded \/ startsWith(path, excluded \o <<Slash>>)

\* part_014:88-91  the filter on find's output: f.startsWith(excluded)
filteredOut(path) ==
    \E excluded \in MIGRATION_EXCLUDED_PATHS : startsWith(path, excluded)

\* part_014:63-104  findChangedFiles
findChangedFiles(d, installed, marker, b) ==
    IF ~marker THEN {}
    ELSE {path \in MigPaths :
              /\ d[path].exists
              /\ newerThanMarker(d[path], b)
              /\ ~prunedByFind(path)
              /\ ~filteredOut(path)}
         \cup {path \in {PACKAGE_JSON} :
                  /\ installed.packageJson.newer
                  /\ ~prunedByFind(path)
                  /\ ~filteredOut(path)}

\* part_014:220-261  createMigrationTarball: tar -czf -P --files-from
createMigrationTarball(d, installed, files, at) ==
    [present |-> TRUE, createdAt |-> at,
     files |-> [path \in MigPaths |-> IF path \in files THEN d[path] ELSE NoFile],
     packageJson |-> [present |-> PACKAGE_JSON \in files,
                      deps |-> IF PACKAGE_JSON \in files
                               THEN installed.packageJson.deps ELSE {}]]

\* part_014:108-209  generatePackageManifests: the Install: lines of apt's
\* history.log, and pip freeze without the baseline
generatePackageManifests(installed) == [apt |-> installed.apt, pip |-> installed.pip]

\* what the steps of a checkpoint come to: the find command, pip freeze, the
\* tar command, and the two uploads
SaveOutcomes == [scan : BOOLEAN, freeze : BOOLEAN, tar : BOOLEAN,
                 putTarball : BOOLEAN, putManifest : BOOLEAN]

AllSaved == [scan |-> TRUE, freeze |-> TRUE, tar |-> TRUE,
             putTarball |-> TRUE, putManifest |-> TRUE]

\* (variant: the manifest is uploaded before the tarball)
uploadManifestFirst(store, manifest, tarball, o) ==
    IF ~o.putManifest THEN store
    ELSE IF ~o.putTarball THEN [manifest |-> manifest, tarball |-> store.tarball]
    ELSE [manifest |-> manifest, tarball |-> tarball]

\* the step of the upload whose rejection ends it
uploadRejected(o) ==
    IF ~o.putTarball THEN "putTarball"
    ELSE IF ~o.putManifest THEN "putManifest"
    ELSE "nothing"

\* part_014:305-318  Actor.setValue of the tarball, then of the manifest: a
\* rejected upload ends the checkpoint and leaves its key as it was
upload(store, manifest, tarball, o) ==
    IF ~o.putTarball THEN store
    ELSE IF ~o.putManifest THEN [manifest |-> store.manifest, tarball |-> tarball]
    ELSE [manifest |-> manifest, tarball |-> tarball]

\* (variant: an error of the tarball step leaves the function)
saveMigrationStateRethrowing(store, d, installed, marker, b, o) ==
    LET changedFiles == IF o.scan THEN findChangedFiles(d, installed, marker, b) ELSE {}
        packages == generatePackageManifests(IF o.freeze THEN installed
                                             ELSE [installed EXCEPT !.pip = {}])
        manifest == [present |-> TRUE, createdAt |-> b, apt |-> packages.apt,
                     pip |-> packages.pip, paths |-> changedFiles]
    IN  IF ~marker THEN [store |-> store, threw |-> FALSE, caught |-> "marker"]
        ELSE IF changedFiles # {} /\ ~o.tar
        THEN [store |-> store, threw |-> TRUE, caught |-> "nothing"]
        ELSE [store |-> upload(store, manifest,
                               createMigrationTarball(d, installed, changedFiles, b), o),
              threw |-> FALSE, caught |-> uploadRejected(o)]

\* part_014:266-325  saveMigrationState: the scan and pip freeze catch their own
\* errors and yield empty lists; statSync(STARTUP_MARKER_PATH) throws when there
\* is no marker, createMigrationTarball rethrows, Actor.setValue rejects; the
\* catch around all of it logs and returns
saveMigrationState(store, d, installed, marker, b, o) ==
    LET changedFiles == IF o.scan THEN findChangedFiles(d, installed, marker, b) ELSE {}
        packages == generatePackageManifests(IF o.freeze THEN installed
                                             ELSE [installed EXCEPT !.pip = {}])
        manifest == [present |-> TRUE, createdAt |-> b, apt |-> packages.apt,
                     pip |-> packages.pip, paths |-> changedFiles]
    IN  IF ~marker THEN [store |-> store, threw |-> FALSE, caught |-> "marker"]
        ELSE IF changedFiles # {} /\ ~o.tar
        THEN [store |-> store, threw |-> FALSE, caught |-> "tar"]
        ELSE [store |-> upload(store, manifest,
                               createMigrationTarball(d, installed, changedFiles, b), o),
              threw |-> FALSE, caught |-> uploadRejected(o)]

\* tar -xzf -C / -P: the files of the tarball replace those on the disk, with
\* their content, permissions and mtime
extractTarball(d, tarball) ==
    [path \in MigPaths |-> IF tarball.files[path].exists THEN tarball.files[path]
                           ELSE d[path]]

\* the package.json of the tarball replaces the one on the disk, with its
\* timestamp, which is older than the marker this start will write
extractPackageJson(installed, tarball) ==
    IF tarball.packageJson.present
    THEN [installed EXCEPT !.packageJson = [deps |-> tarball.packageJson.deps,
                                            newer |-> FALSE]]
    ELSE installed

\* part_014:331-445  reinstallPackages: each manager's failure is caught; npm
\* install reads the package.json that is on the disk
reinstallPackages(installed, packages, aptOk, pipOk, npmOk) ==
    [apt |-> IF aptOk THEN installed.apt \cup packages.apt ELSE installed.apt,
     pip |-> IF pipOk THEN installed.pip \cup packages.pip ELSE installed.pip,
     npm |-> IF npmOk THEN installed.npm \cup installed.packageJson.deps
             ELSE installed.npm,
     packageJson |-> installed.packageJson,
     failed |-> {m \in {"apt"} : packages.apt # {} /\ ~aptOk}
                \cup {m \in {"pip"} : packages.pip # {} /\ ~pipOk}
                \cup {m \in {"npm"} : installed.packageJson.deps # {} /\ ~npmOk}]

\* the store after a run that was migrated with nothing changed
EmptySnapshot == saveMigrationState(NoSnapshot, ImageDisk, NoPkgs, TRUE, 0, AllSaved).store

\* what a restore comes to: a download (Actor.getValue) or the writing of the
\* tarball rejects, the extraction is killed at its timeout, and each of the
\* three installations
RestoreOutcomes == [raises : {"nothing", "download", "extraction"},
                    aptOk : BOOLEAN, pipOk : BOOLEAN, npmOk : BOOLEAN]

\* (variant: what is raised inside restoreMigrationState leaves it)
restoreMigrationStateRethrowing(store, d, installed, o) ==
    IF o.raises = "download"
    THEN [restored |-> FALSE, threw |-> TRUE, caught |-> "nothing",
          disk |-> d, pkgs |-> installed]
    ELSE IF ~store.manifest.present \/ ~store.tarball.present
    THEN [restored |-> FALSE, threw |-> FALSE, caught |-> "nothing",
          disk |-> d, pkgs |-> installed]
    ELSE IF store.manifest.paths # {} /\ o.raises = "extraction"
    THEN [restored |-> FALSE, threw |-> TRUE, caught |-> "nothing",
          disk |-> d, pkgs |-> installed]
    ELSE LET extracted == IF store.manifest.paths # {}
                          THEN [disk |-> extractTarball(d, store.tarball),
                                pkgs |-> extractPackageJson(installed, store.tarball)]
                          ELSE [disk |-> d, pkgs |-> installed]
         IN  [restored |-> TRUE, threw |-> FALSE, caught |-> "nothing",
              disk |-> extracted.disk,
              pkgs |-> reinstallPackages(extracted.pkgs, store.manifest,
                                         o.aptOk, o.pipOk, o.npmOk)]

\* part_014:451-509  restoreMigrationState: false without a manifest or without
\* a tarball; otherwise the tarball is extracted when the manifest counts
\* files, and the packages are installed again; the catch around all of it
\* logs the error and returns false (an extraction killed at its timeout is
\* taken to have written nothing yet)
restoreMigrationState(store, d, installed, o) ==
    IF o.raises = "download"
    THEN [restored |-> FALSE, threw |-> FALSE, caught |-> "download",
          disk |-> d, pkgs |-> installed]
    ELSE IF ~store.manifest.present \/ ~store.tarball.present
    THEN [restored |-> FALSE, threw |-> FALSE, caught |-> "nothing",
          disk |-> d, pkgs |-> installed]
    ELSE IF store.manifest.paths # {} /\ o.raises = "extraction"
    THEN [restored |-> FALSE, threw |-> FALSE, caught |-> "extraction",
          disk |-> d, pkgs |-> installed]
    ELSE LET extracted == IF store.manifest.paths # {}
                          THEN [disk |-> extractTarball(d, store.tarball),
                                pkgs |-> extractPackageJson(installed, store.tarball)]
                          ELSE [disk |-> d, pkgs |-> installed]
         IN  [restored |-> TRUE, threw |-> FALSE, caught |-> "nothing",
              disk |-> extracted.disk,
              pkgs |-> reinstallPackages(extracted.pkgs, store.manifest,
                                         o.aptOk, o.pipOk, o.npmOk)]

\* main.ts:63-72  restoreMigrationState is awaited unless in local mode; a
\* rejection of the awaited call ends the process
RestoreMigrationOn(outcomes) ==
    /\ pc = "restore"
    /\ IF isLocalMode
       THEN /\ restoredFromMigration' = FALSE
            /\ pc' = "setup"
            /\ UNCHANGED <<startupLog, disk, pkgs>>
       ELSE \E o \in outcomes :
            \A r \in {restoreMigrationState(kv, disk, pkgs, o)} :
               /\ restoredFromMigration' = r.restored
               /\ pc' = IF r.threw THEN "crashed" ELSE "setup"
               /\ Log(<<"restore", IF r.threw THEN "throw"
                                   ELSE IF r.restored THEN "true" ELSE "false",
                        r.caught>>)
               /\ disk' = r.disk
               /\ pkgs' = r.pkgs
    /\ UNCHANGED <<isLocalMode, input, initializationComplete, initializationError,
                   startupMarker, migrationHandler, exec, fs, lastReq, lastResp,
                   idleVars, ttyd, reqVars, kv, boot, userWrote, migrating, lastActivityAt>>

RestoreMigration == RestoreMigrationOn(RestoreOutcomes)

\* the restore when the store answers and the extraction ends in time
RestoreMigrationDownloaded ==
    RestoreMigrationOn({o \in RestoreOutcomes : o.raises = "nothing"})

\* (variant: the environment is set up whether or not a snapshot was restored)
SetupEnvironmentAlways ==
    /\ pc = "setup"
    /\ \E outcome \in {"ok", "failed"} :
          /\ pc' = "init"
          /\ Log(<<"install", outcome>>)
    /\ UNCHANGED <<isLocalMode, input, restoredFromMigration, initializationComplete,
                   initializationError, startupMarker, migrationHandler,
                   exec, fs, lastReq, lastResp,
                   idleVars, auxVars, lastActivityAt>>

\* the dependencies of the Actor input: none given, given; the requirements
\* text: none, only blank and comment lines, at least one requirement
NodeDependencies == {"none", "deps"}
PythonRequirements == {"none", "comment", "reqs"}

\* what the steps of the setup come to: preparing the two workspaces (the venv
\* is made by  python3 -m venv  when it is not there), preparing the venv again
\* before pip runs, and the npm and pip installations
SetupOutcomes ==
    {o \in [nodeInit : BOOLEAN, pythonInit : BOOLEAN, pythonInitAgain : BOOLEAN,
            npm : BOOLEAN, pip : BOOLEAN] : o.pythonInit => o.pythonInitAgain}

\* environment.ts:160-196  installNodeLibraries: each failure is caught
installNodeLibraries(dependencies, o) ==
    [threw |-> FALSE, success |-> dependencies = "none" \/ o.npm,
     installed |-> IF dependencies = "deps" /\ o.npm THEN InputNodeDependencies
                   ELSE {}]

\* environment.ts:171-174  npm install --save pkg  in JS_TS_CODE_DIR: the
\* packages go to node_modules and their names into package.json, which is
\* newer than the startup marker when there is one already
npmInstallSave(installed, packages, marker) ==
    IF packages = {} THEN installed
    ELSE [installed EXCEPT !.npm = @ \cup packages,
                           !.packageJson = [deps |-> @.deps \cup packages,
                                            newer |-> marker]]

\* (variant: the venv is prepared inside a try)
installPythonLibrariesGuarded(requirementsTxt, o) ==
    IF requirementsTxt \in {"none", "comment"} THEN [threw |-> FALSE, success |-> TRUE]
    ELSE [threw |-> FALSE, success |-> o.pythonInitAgain /\ o.pip]

\* environment.ts:205-258  installPythonLibraries:  await
\* initializePythonEnvironment()  stands outside the try of the pip loop
installPythonLibraries(requirementsTxt, o) ==
    IF requirementsTxt \in {"none", "comment"} THEN [threw |-> FALSE, success |-> TRUE]
    ELSE IF ~o.pythonInitAgain THEN [threw |-> TRUE, success |-> FALSE]
    ELSE [threw |-> FALSE, success |-> o.pip]

\* environment.ts:265-322  setupExecutionEnvironment outside local mode
setupExecutionEnvironment(inp, o) ==
    LET errors == IF o.nodeInit /\ o.pythonInit THEN {}
                  ELSE {"Environment initialization failed"}
        nodeSetup == installNodeLibraries(inp.nodeDependencies, o)
        pythonSetup == installPythonLibraries(inp.pythonRequirementsTxt, o)
    IN  [threw |-> nodeSetup.threw \/ pythonSetup.threw,
         success |-> errors = {} /\ nodeSetup.success /\ pythonSetup.success,
         installed |-> nodeSetup.installed]

\* main.ts:74-100 with setupExecutionEnvironment: skipped after a restore;
\* returns at once in local mode; otherwise its result is logged, and a
\* rejection of the awaited call ends the process
SetupEnvironment ==
    /\ pc = "setup"
    /\ IF restoredFromMigration
       THEN /\ pc' = "init"
            /\ UNCHANGED startupLog
       ELSE IF isLocalMode
            THEN /\ pc' = "init"
                 /\ Log(<<"setup", "local">>)
            ELSE \E o \in SetupOutcomes :
                 \A setupResult \in {setupExecutionEnvironment(input, o)} :
                    /\ pc' = IF setupResult.threw THEN "crashed" ELSE "init"
                    /\ Log(<<"install", IF setupResult.threw THEN "throw"
                                        ELSE IF setupResult.success THEN "ok"
                                        ELSE "failed">>)
                    /\ pkgs' = npmInstallSave(pkgs, setupResult.installed, FALSE)
    /\ (~restoredFromMigration /\ ~isLocalMode) \/ UNCHANGED pkgs
    /\ UNCHANGED <<isLocalMode, input, restoredFromMigration, initializationComplete,
                   initializationError, startupMarker, migrationHandler,
                   exec, fs, lastReq, lastResp, idleVars, ttyd, reqVars,
                   disk, kv, boot, userWrote, migrating, lastActivityAt>>

\* (variant: a script killed at the timeout counts as exit code 0)
InitScriptExitCodeOr0(err) == CodeOr0(err.code)

\* executeInitScript (environment.ts:358-461): the exitCode it returns
InitScriptExitCode(err) == CodeOr1(err.code)

\* main.ts:112  the readiness error recorded for a failed init script
InitScriptFailure(exitCode) == <<"Init script failed with exit code", exitCode>>

\* main.ts:102-116  the init script, if one is given
RunInitScript ==
    /\ pc = "init"
    /\ IF ~HasInitScript
       THEN UNCHANGED <<initializationError, startupLog>>
       ELSE IF isLocalMode
            THEN \* executeInitScript returns exitCode 0 without running anything
                 /\ UNCHANGED initializationError
                 /\ Log(<<"initScript", "skipped">>)
            ELSE \E uniqueId \in TempIds :
                 \/ /\ UNCHANGED initializationError      \* the child exits 0
                    /\ Log(<<"initScript", "ok">>)
                    /\ tmpFiles' = executeInitScriptTemp(tmpFiles, uniqueId, "written")
                 \/ \E err \in InitScriptErrors :
                        /\ initializationError' =
                               IF NonZero(InitScriptExitCode(err))
                               THEN InitScriptFailure(InitScriptExitCode(err))
                               ELSE initializationError
                        /\ Log(<<"initScript", "failed">>)
                        /\ tmpFiles' = executeInitScriptTemp(tmpFiles, uniqueId, "written")
                 \/ \E outcome \in WriteOutcomes \ {"written"} :
                        \* writeFile or chmod rejects: the catch returns the failure
                        /\ initializationError' =
                               InitScriptFailure(InitScriptExitCode(WriteError))
                        /\ Log(<<"initScript", "failed">>)
                        /\ tmpFiles' = executeInitScriptTemp(tmpFiles, uniqueId, outcome)
    /\ (HasInitScript /\ ~isLocalMode) \/ UNCHANGED tmpFiles
    /\ pc' = "persist"
    /\ UNCHANGED <<isLocalMode, input, restoredFromMigration, initializationComplete,
                   startupMarker, migrationHandler, exec, fs, lastReq, lastResp,
                   idleVars, ttyd, migVars, httpRes, mcp, runs, lastActivityAt>>

\* main.ts:132-139  initializePersistence() writes the startup marker on a fresh
\* non-local start; a failure to write it is caught and logged
InitializePersistence ==
    /\ pc = "persist"
    /\ IF ~isLocalMode /\ ~restoredFromMigration
       THEN \E written \in BOOLEAN : startupMarker' = written
       ELSE UNCHANGED startupMarker
    /\ pc' = "register"
    /\ UNCHANGED <<isLocalMode, input, restoredFromMigration, initializationComplete,
                   initializationError, migrationHandler, startupLog,
                   exec, fs, lastReq, lastResp,
                   idleVars, auxVars, lastActivityAt>>

\* (variant: the handler is registered in local mode too)
RegisterMigrationHandlerAlways ==
    /\ pc = "register"
    /\ migrationHandler' = TRUE
    /\ pc' = "complete"
    /\ UNCHANGED <<isLocalMode, input, restoredFromMigration, initializationComplete,
                   initializationError, startupMarker, startupLog,
                   exec, fs, lastReq, lastResp,
                   idleVars, auxVars, lastActivityAt>>

\* main.ts:141-151  Actor.on('migrating', ...)
RegisterMigrationHandler ==
    /\ pc = "register"
    /\ migrationHandler' = ~isLocalMode
    /\ pc' = "complete"
    /\ UNCHANGED <<isLocalMode, input, restoredFromMigration, initializationComplete,
                   initializationError, startupMarker, startupLog,
                   exec, fs, lastReq, lastResp,
                   idleVars, auxVars, lastActivityAt>>

\* main.ts:153-156  initializationComplete = true
MarkComplete ==
    /\ pc = "complete"
    /\ initializationComplete' = TRUE
    /\ lastActivityAt' = now
    /\ readyAt' = now
    /\ Log(<<"complete", "">>)
    /\ pc' = "listen"
    /\ UNCHANGED <<isLocalMode, input, restoredFromMigration, initializationError,
                   startupMarker, migrationHandler, exec, fs, lastReq, lastResp,
                   now, idleTimer, exit, shellSocket, auxVars>>

\* main.ts:750-752 and 806-879, run in one turn: spawnTtyd() unless in local
\* mode, then server.listen(port): requests are admitted from here on, and the
\* idle check is scheduled when the idle timeout is positive
Listen ==
    /\ pc = "listen"
    /\ pc' = "serving"
    /\ ttyd' = IF isLocalMode THEN ttyd ELSE SpawnedTtyd(ttyd, now)
    /\ idleTimer' = IF idleTimeoutSecs(input) > 0
                    THEN [set |-> TRUE, at |-> now + CheckIntervalMs]
                    ELSE NoTimer
    /\ Log(<<"listen", "">>)
    /\ UNCHANGED <<isLocalMode, input, restoredFromMigration, initializationComplete,
                   initializationError, startupMarker, migrationHandler,
                   exec, fs, lastReq, lastResp,
                   now, exit, shellSocket, readyAt, lastActivityAt, migVars,
                   reqVars>>

\* (variant: the readiness-probe header is not looked at)
activityTrackingIgnoringProbe(path, probeHeader) ==
    lastActivityAt' = IF path # "/health" THEN now ELSE lastActivityAt

\* main.ts:161-170  the activity tracking middleware, first in the chain of every
\* HTTP request
activityTracking(path, probeHeader) ==
    LET isHealth == path = "/health"
        isProbe == probeHeader
    IN  lastActivityAt' = IF ~isHealth /\ ~isProbe THEN now ELSE lastActivityAt

(***************************************************************************)
(* Requests and responses                                                  *)
(***************************************************************************)
NoPath == <<>>
NoResult == [stdout |-> <<>>, stderr |-> <<>>, exitCode |-> Null, language |-> "none"]
NoChild == [spawned |-> FALSE, ended |-> "none", status |-> 0, timedOut |-> FALSE]

\* a JSON field of a request body: absent, or a string
Absent == [present |-> FALSE, text |-> <<>>]
Given(text) == [present |-> TRUE, text |-> text]

\* a request: the endpoint with its path, body and query flags
NoBody == [present |-> FALSE, data |-> <<>>]
Body(data) == [present |-> TRUE, data |-> data]

\* main.ts:429, 470  express.raw() on a request without a body: the parser of
\* express 4 (which the route patterns '/fs/*' and '/shell*' are written for)
\* leaves req.body = {}, an object that is truthy and is not a Buffer
NotABuffer == <<0 - 1>>
EmptyObject == [present |-> TRUE, data |-> NotABuffer]

\* a request: the endpoint with its path, body and query flags; real is the
\* location the path led to in the filesystem when the request arrived
NoReq == [op |-> "none", path |-> NoPath, content |-> NoBody, flag |-> FALSE,
          append |-> FALSE, command |-> Absent, language |-> Absent, cwd |-> NoPath,
          timeoutSecs |-> 0, real |-> <<>>, probe |-> FALSE]

\* no MCP server has been made: created counts the servers constructed, open
\* holds those connected to a transport and not yet closed, handledBy the one
\* that handled the last POST /mcp
NoMcp == [created |-> 0, open |-> {}, handledBy |-> 0]

\* /tmp holds no script file; no execution is in flight
NoTmpFiles == {}
NoRuns == <<>>
\* no such response under way
NoRes == [kind |-> "none", headersSent |-> FALSE, heads |-> 0, ended |-> FALSE,
          upstream |-> "none"]

\* a response: status line and body; read and touched record the locations the
\* handler read and changed, child what became of the child process it spawned
NoResp == [status |-> 0, body |-> "none", path |-> NoPath, data |-> <<>>,
           entries |-> {}, read |-> {}, touched |-> {}, isError |-> FALSE,
           result |-> NoResult, child |-> NoChild, code |-> 0,
           items |-> 0, text |-> "none", opFailed |-> FALSE]

\* the server answers once it listens
Serving == pc = "serving"

\* a request is taken up when the previous exchange is over
Admits == Serving /\ lastReq = NoReq /\ ~exit.triggered

\* the response has been written (res.json / res.send / res.end): the exchange
\* is over
ResponseSent ==
    /\ lastResp # NoResp
    /\ lastReq' = NoReq
    /\ lastResp' = NoResp
    /\ UNCHANGED <<lifeVars, exec, fs, lastActivityAt>>

\* (variant: the recorded error is not consulted)
HealthResponseIgnoringError(complete, error) ==
    IF ~complete THEN [status |-> 503, body |-> "initializing"]
    ELSE [status |-> 200, body |-> "healthy"]

\* main.ts:606-625  app.get('/health')
HealthResponse(complete, error) ==
    IF ~complete THEN [status |-> 503, body |-> "initializing"]
    ELSE IF error # NoError THEN [status |-> 503, body |-> "unhealthy"]
    ELSE [status |-> 200, body |-> "healthy"]

HealthRequestOn(probes) ==
    /\ Admits
    /\ \E probe \in probes :
        /\ activityTracking("/health", probe)
        /\ lastReq' = [NoReq EXCEPT !.op = "GET /health", !.probe = probe]
    /\ lastResp' = LET h == HealthResponse(initializationComplete, initializationError)
                   IN  [NoResp EXCEPT !.status = h.status, !.body = h.body]
    /\ UNCHANGED <<lifeVars, exec, fs>>

HealthRequest == HealthRequestOn({FALSE})

(***************************************************************************)
(* POST /exec: language normalization, runCommand, executeCode             *)
(***************************************************************************)
MaxTimeoutSecs == 1   \* timeoutSecs of a request: 0 (absent) .. MaxTimeoutSecs
MaxOutput == 1        \* chunks a child writes to each of stdout and stderr

\* String.prototype.toLowerCase on the letters the requests use
LowerChar(c) ==
    CASE c = "J" -> "j" [] c = "S" -> "s" [] c = "T" -> "t" [] c = "P" -> "p"
      [] c = "Y" -> "y" [] c = "H" -> "h" [] c = "O" -> "o" [] c = "N" -> "n"
      [] OTHER -> c

\* (variant: the name is compared as given)
toLowerCaseSkipped(str) == str

toLowerCase(str) == [i \in 1..Len(str) |-> LowerChar(str[i])]

\* String.prototype.trim for strings of letters and blanks
RECURSIVE trimStart(_)
trimStart(str) == IF str # <<>> /\ Head(str) = " " THEN trimStart(Tail(str)) ELSE str

RECURSIVE trimEnd(_)
trimEnd(str) ==
    IF str # <<>> /\ str[Len(str)] = " " THEN trimEnd(SubSeq(str, 1, Len(str) - 1)) ELSE str

trim(str) == trimEnd(trimStart(str))

\* JavaScript truthiness of such a field: present and not ''
Provided(f) == f.present /\ f.text # <<>>

\* (variant: 'shell' is accepted as a name of the shell)
normalizeLanguageWithShell(lang) ==
    IF ~Provided(lang) THEN "null"
    ELSE LET lower == toLowerCase(lang.text)
         IN  CASE lower \in {<<"j", "s">>, <<"j", "a", "v", "a", "s", "c", "r", "i", "p", "t">>}
                     -> "js"
               [] lower \in {<<"t", "s">>, <<"t", "y", "p", "e", "s", "c", "r", "i", "p", "t">>}
                     -> "ts"
               [] lower \in {<<"p", "y">>, <<"p", "y", "t", "h", "o", "n">>} -> "py"
               [] lower \in {<<"b", "a", "s", "h">>, <<"s", "h">>, <<"s", "h", "e", "l", "l">>}
                     -> "shell"
               [] OTHER -> "null"

\* main.ts:184-198  normalizeLanguage: 'js' | 'ts' | 'py' | 'shell' | null
normalizeLanguage(lang) ==
    IF ~Provided(lang) THEN "null"
    ELSE LET lower == toLowerCase(lang.text)
         IN  CASE lower = <<"j", "s">> -> "js"
               [] lower = <<"j", "a", "v", "a", "s", "c", "r", "i", "p", "t">> -> "js"
               [] lower = <<"t", "s">> -> "ts"
               [] lower = <<"t", "y", "p", "e", "s", "c", "r", "i", "p", "t">> -> "ts"
               [] lower = <<"p", "y">> -> "py"
               [] lower = <<"p", "y", "t", "h", "o", "n">> -> "py"
               [] lower = <<"b", "a", "s", "h">> -> "shell"
               [] lower = <<"s", "h">> -> "shell"
               [] OTHER -> "null"

\* the request bodies POST /exec is tried with
Commands == {Absent, Given(<<>>), Given(<<" ">>), Given(<<"l", "s">>)}

Languages ==
    {Absent, Given(<<>>),
     Given(<<"J", "S">>), Given(<<"j", "a", "v", "a", "s", "c", "r", "i", "p", "t">>),
     Given(<<"t", "s">>), Given(<<"T", "y", "p", "e", "S", "c", "r", "i", "p", "t">>),
     Given(<<"p", "y">>), Given(<<"P", "Y", "T", "H", "O", "N">>),
     Given(<<"b", "a", "s", "h">>), Given(<<"S", "h">>),
     Given(<<"s", "h", "e", "l", "l">>), Given(<<"r", "u", "b", "y">>)}

Cwds ==
    {<<>>,                                              \* absent
     <<"p", "y">>,                                      \* R/py
     <<"n", "o">>,                                      \* R/no, which does not exist
     <<".", ".", "/", "e", "t", "c">>,                  \* ../etc
     SANDBOX_DIR \o <<"2">>}                            \* /sandbox2

TimeoutSecs == 0..MaxTimeoutSecs

\* the child process of the request in flight: what it has written so far, the
\* time it has run, and whether the timeout has sent it the kill signal
Idle == [phase |-> "idle", kind |-> "none", language |-> "none",
         timeoutMs |-> 0, elapsed |-> 0, stdout |-> <<>>, stderr |-> <<>>,
         tempFile |-> 0]

\* main.ts:686  timeoutSecs ? timeoutSecs * 1000 : undefined   (0 stands for undefined)
TimeoutMs(timeoutSecs) == IF timeoutSecs # 0 THEN timeoutSecs * MsPerSec ELSE 0

\* the error exec() rejects with: `Command failed: ${cmd}\n${stderr}`
CommandFailed(stderr) == <<"Command failed: cmd">> \o stderr

\* operations.ts runCommand, catch branch (part_012:284-292)
runCommandFailure(err) ==
    [stdout |-> err.stdout,                 \* err.stdout || ''
     stderr |-> err.stderr,                 \* err.stderr || ''
     exitCode |-> CodeOr1(err.code)]

\* main.ts:694-695  result = { ...result, language: 'shell' }
withShellLanguage(result) ==
    [stdout |-> result.stdout, stderr |-> result.stderr, exitCode |-> result.exitCode,
     language |-> "shell"]

\* operations.ts executeCode, catch branch (part_012:525-533)
executeCodeFailure(err, language) ==
    [stdout |-> err.stdout,
     stderr |-> IF err.stderr # <<>> THEN err.stderr ELSE err.message,
                                            \* err.stderr || err.message || ...
     exitCode |-> CodeOr1(err.code),
     language |-> language]

(***************************************************************************)
(* The filesystem: a function from locations (lists of names below '/')    *)
(* to nodes. System calls follow symbolic links; path.normalize does not.  *)
(***************************************************************************)
MaxData == 1   \* bytes a file may hold (an append beyond it is not tried)

Dir == [kind |-> "dir", data |-> <<>>, target |-> <<>>]
File(data) == [kind |-> "file", data |-> data, target |-> <<>>]
Link(target) == [kind |-> "link", data |-> <<>>, target |-> target]

SegEtc == <<"e", "t", "c">>
SegPasswd == <<"p", "a", "s", "s", "w", "d">>
SegLnk == <<"l", "n", "k">>

Root == <<>>
SandboxLoc == <<SegSandbox>>
\* Dockerfile: WORKDIR /app, the working directory of the server process
AppLoc == <<<<"a", "p", "p">>>>

\* the image: the sandbox root with its two workspaces, and /etc/passwd outside
InitialFs ==
    (Root :> Dir) @@ (SandboxLoc :> Dir) @@ (AppLoc :> Dir)
    @@ (<<SegSandbox, <<"p", "y">>>> :> Dir)
    @@ (<<SegSandbox, <<"j", "s", "-", "t", "s">>>> :> Dir)
    @@ (<<SegEtc>> :> Dir) @@ (<<SegEtc, SegPasswd>> :> File(<<9>>))

Parent(loc) == IF loc = <<>> THEN <<>> ELSE SubSeq(loc, 1, Len(loc) - 1)

IsPrefixLoc(pre, loc) == Len(loc) >= Len(pre) /\ SubSeq(loc, 1, Len(pre)) = pre

Children(f, loc) == {q \in DOMAIN f : Len(q) = Len(loc) + 1 /\ IsPrefixLoc(loc, q)}
Subtree(f, loc) == {q \in DOMAIN f : IsPrefixLoc(loc, q)}

Restrict(f, S) == [q \in S |-> f[q]]

\* the names of a path that are neither '' nor '.'
RECURSIVE RealSegs(_)
RealSegs(segs) ==
    IF segs = <<>> THEN <<>>
    ELSE IF Head(segs) = <<>> \/ Head(segs) = Dot THEN RealSegs(Tail(segs))
    ELSE <<Head(segs)>> \o RealSegs(Tail(segs))

\* Path lookup as the kernel does it, from location cur along the names rest:
\* "exists" at a location (links followed, the last one too), "missing" with
\* the names that do not exist yet below the directory at, or "error"
\* (a name below a file, a dangling link)
RECURSIVE Lookup(_, _, _)
Lookup(f, cur, rest) ==
    IF rest = <<>> THEN [st |-> "exists", at |-> cur, tail |-> <<>>]
    ELSE LET s == Head(rest)
             t == Tail(rest)
             nxt == Append(cur, s)
         IN  IF s = <<>> \/ s = Dot THEN Lookup(f, cur, t)
             ELSE IF f[cur].kind # "dir" THEN [st |-> "error", at |-> cur, tail |-> rest]
             ELSE IF s = DotDot THEN Lookup(f, Parent(cur), t)
             ELSE IF nxt \notin DOMAIN f
                  THEN [st |-> "missing", at |-> cur, tail |-> RealSegs(rest)]
             ELSE IF f[nxt].kind = "link"
                  THEN IF f[nxt].target \in DOMAIN f
                       THEN Lookup(f, f[nxt].target, t)
                       ELSE [st |-> "error", at |-> nxt, tail |-> t]
             ELSE Lookup(f, nxt, t)

\* the location of an absolute path string
Locate(f, p) == Lookup(f, Root, Split(p))

\* fs.realpath: the canonical path of an existing file, or ENOENT
realpathOf(l) == [ok |-> l.st = "exists", path |-> ToStr(l.at)]

realpath(f, p) == realpathOf(Locate(f, p))

\* fs.mkdir(p, {recursive: true})
MkdirAt(f, l) ==
    LET new == {l.at \o SubSeq(l.tail, 1, k) : k \in 1..Len(l.tail)}
    IN  IF l.st = "exists"
        THEN [ok |-> f[l.at].kind = "dir", fs |-> f, at |-> l.at]
        ELSE IF l.st = "missing" /\ \A i \in 1..Len(l.tail) : l.tail[i] # DotDot
        THEN [ok |-> TRUE, fs |-> [q \in new |-> Dir] @@ f, at |-> l.at \o l.tail]
        ELSE [ok |-> FALSE, fs |-> f, at |-> l.at]

MkdirP(f, p) == MkdirAt(f, Locate(f, p))

\* fs.writeFile(p, data) and fs.appendFile(p, data): open with O_CREAT
WriteTo(f, l, data, append) ==
    LET loc == IF l.st = "missing" THEN l.at \o l.tail ELSE l.at
        old == IF append /\ l.st = "exists" THEN f[l.at].data ELSE <<>>
        can == \/ l.st = "exists" /\ f[l.at].kind = "file"
               \/ l.st = "missing" /\ Len(l.tail) = 1 /\ l.tail[1] # DotDot
    IN  IF can
        THEN [ok |-> TRUE, fs |-> (loc :> File(old \o data)) @@ f, at |-> loc]
        ELSE [ok |-> FALSE, fs |-> f, at |-> loc]

WriteAt(f, p, data, append) == WriteTo(f, Locate(f, p), data, append)

\* await fs.mkdir(path.dirname(p), {recursive: true}) and then the write, which
\* is not reached when the mkdir throws
WriteInto(made, p, data, append) ==
    IF ~made.ok THEN [ok |-> FALSE, fs |-> made.fs, at |-> made.at]
    ELSE IF data = NotABuffer         \* ERR_INVALID_ARG_TYPE, thrown before the open
    THEN [ok |-> FALSE, fs |-> made.fs, at |-> made.at]
    ELSE WriteAt(made.fs, p, data, append)

MkdirWrite(f, p, data, append) == WriteInto(MkdirP(f, dirname(p)), p, data, append)

\* resolveAndValidatePath (part_012:232-251): the real path if the file exists,
\* the normalized path if not, accepted when it starts with SANDBOX_DIR;
\* l is what the kernel finds at the path returned
validatedAt(f, realPath) ==
    [ok |-> startsWith(realPath, SANDBOX_DIR), path |-> realPath, l |-> Locate(f, realPath)]

validatePath(f, real, resolvedPath) ==
    validatedAt(f, IF real.ok THEN real.path ELSE normalize(resolvedPath))

resolveAndValidatePath(f, filePath) ==
    validatePath(f, realpath(f, resolveAgainstSandbox(filePath)),
                 resolveAgainstSandbox(filePath))

(***************************************************************************)
(* operations.ts: the file operations behind /fs/* (each returns its       *)
(* result object, the filesystem it leaves, and the locations it read)     *)
(***************************************************************************)
NoLoc == {}

\* statPath (part_012:549-582)
statPathOf(f, filePath, v) ==
    IF v.ok /\ v.l.st = "exists"
    THEN [exists |-> TRUE, path |-> v.path,
          type |-> IF f[v.l.at].kind = "dir" THEN "directory" ELSE "file",
          size |-> Len(f[v.l.at].data), read |-> {v.l.at}]
    ELSE [exists |-> FALSE, path |-> filePath, type |-> "file", size |-> 0,
          read |-> NoLoc]

statPath(f, filePath) == statPathOf(f, filePath, resolveAndValidatePath(f, filePath))

\* readFileBinary (part_012:587-617)
readFileBinaryOf(f, filePath, v) ==
    IF v.ok /\ v.l.st = "exists" /\ f[v.l.at].kind = "file"
    THEN [ok |-> TRUE, path |-> v.path, content |-> f[v.l.at].data, read |-> {v.l.at}]
    ELSE [ok |-> FALSE, path |-> filePath, content |-> <<>>, read |-> NoLoc]

readFileBinary(f, filePath) ==
    readFileBinaryOf(f, filePath, resolveAndValidatePath(f, filePath))

\* the result object of a write: size is content.length for writeFileBinary and
\* the size fs.stat reports afterwards for appendFile
writeResult(filePath, normalizedPath, content, wrote, append) ==
    IF ~wrote.ok THEN [success |-> FALSE, path |-> filePath, size |-> 0, fs |-> wrote.fs]
    ELSE [success |-> TRUE, path |-> normalizedPath,
          size |-> IF append THEN Len(wrote.fs[wrote.at].data) ELSE Len(content),
          fs |-> wrote.fs]

\* writeFileBinary (part_012:622-672) and appendFile (part_012:677-722): the path
\* is normalized and compared with SANDBOX_DIR; it is not resolved
writeNormalized(f, filePath, content, normalizedPath, append) ==
    IF ~startsWith(normalizedPath, SANDBOX_DIR)
    THEN [success |-> FALSE, path |-> filePath, size |-> 0, fs |-> f]
    ELSE writeResult(filePath, normalizedPath, content,
                     MkdirWrite(f, normalizedPath, content, append), append)

writeFileBinary(f, filePath, content) ==
    writeNormalized(f, filePath, content, normalize(resolveAgainstSandbox(filePath)), FALSE)

appendFile(f, filePath, content) ==
    writeNormalized(f, filePath, content, normalize(resolveAgainstSandbox(filePath)), TRUE)

\* (variant: mkdir without the recursive option, which fails on a directory that
\* exists)
createDirectoryExclusive(f, dirPath, normalizedPath, made) ==
    IF startsWith(normalizedPath, SANDBOX_DIR) /\ made.ok /\ made.fs # f
    THEN [success |-> TRUE, path |-> normalizedPath, fs |-> made.fs]
    ELSE [success |-> FALSE, path |-> dirPath, fs |-> f]

\* createDirectory (part_012:727-762)
createDirectoryAt(f, dirPath, normalizedPath, made) ==
    IF startsWith(normalizedPath, SANDBOX_DIR) /\ made.ok
    THEN [success |-> TRUE, path |-> normalizedPath, fs |-> made.fs]
    ELSE [success |-> FALSE, path |-> dirPath, fs |-> f]

createDirectory(f, dirPath) ==
    createDirectoryAt(f, dirPath, normalize(resolveAgainstSandbox(dirPath)),
                      MkdirP(f, normalize(resolveAgainstSandbox(dirPath))))

\* (variant: a directory is removed with its contents whether or not recursive
\* is given)
deleteFileOrDirectoryForced(f, filePath, recursive, v) ==
    IF ~v.ok \/ v.l.st # "exists"
    THEN [success |-> FALSE, path |-> filePath, error |-> "failed", fs |-> f]
    ELSE [success |-> TRUE, path |-> v.path, error |-> "",
          fs |-> Restrict(f, DOMAIN f \ Subtree(f, v.l.at))]

\* deleteFileOrDirectory (part_012:767-813)
deleteFileOrDirectoryOf(f, filePath, recursive, v) ==
    LET isDir == f[v.l.at].kind = "dir"
        removed == IF isDir /\ recursive THEN Subtree(f, v.l.at) ELSE {v.l.at}
    IN  IF ~v.ok \/ v.l.st # "exists"
        THEN [success |-> FALSE, path |-> filePath, error |-> "failed", fs |-> f]
        ELSE IF isDir /\ ~recursive /\ Children(f, v.l.at) # {}
        THEN [success |-> FALSE, path |-> filePath, error |-> "not empty", fs |-> f]
        ELSE [success |-> TRUE, path |-> v.path, error |-> "",
              fs |-> Restrict(f, DOMAIN f \ removed)]

deleteFileOrDirectory(f, filePath, recursive) ==
    deleteFileOrDirectoryOf(f, filePath, recursive, resolveAndValidatePath(f, filePath))

\* a directory entry as fs.readdir(.., {withFileTypes: true}) reports it:
\* a symbolic link is neither a file nor a directory, and is listed as 'file'
Entry(f, loc) ==
    [name |-> loc[Len(loc)],
     type |-> IF f[loc].kind = "dir" THEN "directory" ELSE "file",
     size |-> IF f[loc].kind = "file" THEN Len(f[loc].data) ELSE 0]

\* listFilesDetailed (part_012:818-881); the entries are kept as a set, their
\* order in the listing is not represented
listFilesDetailedOf(f, targetPath, v) ==
    IF v.ok /\ v.l.st = "exists" /\ f[v.l.at].kind = "dir"
    THEN [ok |-> TRUE, path |-> v.path,
          entries |-> {Entry(f, q) : q \in Children(f, v.l.at)}, read |-> {v.l.at}]
    ELSE [ok |-> FALSE, path |-> targetPath, entries |-> {}, read |-> NoLoc]

listFilesDetailed(f, dirPath) ==
    listFilesDetailedOf(f, resolveDirectoryPath(dirPath),
                        resolveAndValidatePath(f, resolveDirectoryPath(dirPath)))

\* createZipArchive (part_012:886-933): archives everything below the directory
createZipArchiveOf(f, dirPath, v) ==
    IF v.ok /\ v.l.st = "exists" /\ f[v.l.at].kind = "dir"
    THEN [ok |-> TRUE, path |-> v.path, read |-> Subtree(f, v.l.at)]
    ELSE [ok |-> FALSE, path |-> dirPath, read |-> NoLoc]

createZipArchive(f, dirPath) ==
    createZipArchiveOf(f, dirPath, resolveAndValidatePath(f, dirPath))

(***************************************************************************)
(* operations.ts: the file operations behind the MCP tools                 *)
(***************************************************************************)
\* writeFile (part_012:298-338)
writeFileAt(filePath, resolvedPath, wrote) ==
    IF ~wrote.ok THEN [success |-> FALSE, path |-> filePath, fs |-> wrote.fs]
    ELSE [success |-> TRUE, path |-> resolvedPath, fs |-> wrote.fs]

writeFile(f, filePath, content) ==
    writeFileAt(filePath, resolveAgainstSandbox(filePath),
                MkdirWrite(f, resolveAgainstSandbox(filePath), content, FALSE))

\* readFile (part_012:343-370)
readFileAt(f, filePath, resolvedPath, l) ==
    IF l.st = "exists" /\ f[l.at].kind = "file"
    THEN [ok |-> TRUE, path |-> resolvedPath, content |-> f[l.at].data, read |-> {l.at}]
    ELSE [ok |-> FALSE, path |-> filePath, content |-> <<>>, read |-> NoLoc]

readFile(f, filePath) ==
    readFileAt(f, filePath, resolveAgainstSandbox(filePath),
               Locate(f, resolveAgainstSandbox(filePath)))

\* listFiles (part_012:375-414)
listFilesAt(f, targetPath, l) ==
    IF l.st = "exists" /\ f[l.at].kind = "dir"
    THEN [ok |-> TRUE, path |-> targetPath,
          entries |-> {Entry(f, q) : q \in Children(f, l.at)}, read |-> {l.at}]
    ELSE [ok |-> FALSE, path |-> targetPath, entries |-> {}, read |-> NoLoc]

listFiles(f, dirPath) ==
    listFilesAt(f, resolveDirectoryPath(dirPath), Locate(f, resolveDirectoryPath(dirPath)))

(***************************************************************************)
(* main.ts: the /fs/* handlers. Each yields the response and the           *)
(* filesystem the request leaves.                                          *)
(***************************************************************************)
Answer(status, body, f) == [resp |-> [NoResp EXCEPT !.status = status, !.body = body],
                            fs |-> f]

\* !filePath || filePath === '/'   (main.ts:440, 478, 544)
IsRootPath(filePath) == filePath = <<>> \/ filePath = <<Slash>>

\* main.ts:239-301 and 344-426  GET /fs, GET /fs/ (handleGetRoot, filePath = '')
\* and GET /fs/*; handleGetRoot sends nothing when the root is not a directory
getResponse(f, filePath, download, st, zip, list, file) ==
    IF ~st.exists THEN Answer(404, "error", f)
    ELSE IF st.type = "directory"
    THEN IF download
         THEN IF ~zip.ok THEN Answer(500, "error", f)
              ELSE [resp |-> [NoResp EXCEPT !.status = 200, !.body = "zip",
                                 !.path = zip.path, !.read = st.read \cup zip.read],
                    fs |-> f]
         ELSE IF ~list.ok THEN Answer(500, "error", f)
              ELSE [resp |-> [NoResp EXCEPT !.status = 200, !.body = "listing",
                                 !.path = list.path, !.entries = list.entries,
                                 !.read = st.read \cup list.read],
                    fs |-> f]
    ELSE IF filePath = <<>> THEN Answer(0, "no response", f)
    ELSE IF ~file.ok THEN Answer(404, "error", f)
    ELSE [resp |-> [NoResp EXCEPT !.status = 200, !.body = "file", !.path = file.path,
                       !.data = file.content, !.read = st.read \cup file.read],
          fs |-> f]

handleGet(f, filePath, download) ==
    getResponse(f, filePath, download, statPath(f, filePath),
                createZipArchive(f, filePath), listFilesDetailed(f, filePath),
                readFileBinary(f, filePath))

\* main.ts:206-236 and 304-341  HEAD /fs, HEAD /fs/ (handleHeadRoot, filePath = '')
\* and HEAD /fs/*, which reads a file for its MIME type
headResponse(f, filePath, st, mime) ==
    IF ~st.exists THEN Answer(404, "none", f)
    ELSE [resp |-> [NoResp EXCEPT !.status = 200, !.body = st.type, !.path = st.path,
                       !.read = IF st.type = "file" /\ filePath # <<>>
                                THEN st.read \cup mime.read ELSE st.read],
          fs |-> f]

handleHead(f, filePath) ==
    headResponse(f, filePath, statPath(f, filePath), readFileBinary(f, filePath))

\* (variant: a failed write is answered 400)
putResponseBadRequest(f, filePath, content, result) ==
    IF IsRootPath(filePath) THEN Answer(400, "error", f)
    ELSE IF ~content.present THEN Answer(400, "error", f)
    ELSE IF ~result.success THEN Answer(400, "error", result.fs)
    ELSE [resp |-> [NoResp EXCEPT !.status = 200, !.body = "success",
                       !.path = result.path, !.data = <<result.size>>],
          fs |-> result.fs]

\* main.ts:428-467  PUT /fs/*
putResponse(f, filePath, content, result) ==
    IF IsRootPath(filePath) THEN Answer(400, "error", f)
    ELSE IF ~content.present THEN Answer(400, "error", f)
    ELSE IF ~result.success THEN Answer(500, "error", result.fs)
    ELSE [resp |-> [NoResp EXCEPT !.status = 200, !.body = "success",
                       !.path = result.path, !.data = <<result.size>>],
          fs |-> result.fs]

handlePut(f, filePath, content) ==
    putResponse(f, filePath, content, writeFileBinary(f, filePath, content.data))

\* main.ts:469-534  POST /fs/*?mkdir=1 and POST /fs/*?append=1
postResponse(f, filePath, mkdir, append, content, made, result) ==
    IF IsRootPath(filePath) THEN Answer(400, "error", f)
    ELSE IF ~mkdir /\ ~append THEN Answer(400, "error", f)
    ELSE IF mkdir /\ append THEN Answer(400, "error", f)
    ELSE IF mkdir
    THEN IF ~made.success THEN Answer(500, "error", made.fs)
         ELSE [resp |-> [NoResp EXCEPT !.status = 201, !.body = "directory",
                            !.path = made.path],
               fs |-> made.fs]
    ELSE IF ~content.present THEN Answer(400, "error", f)
    ELSE IF ~result.success THEN Answer(500, "error", result.fs)
    ELSE [resp |-> [NoResp EXCEPT !.status = 200, !.body = "success",
                       !.path = result.path, !.data = <<result.size>>],
          fs |-> result.fs]

handlePost(f, filePath, mkdir, append, content) ==
    postResponse(f, filePath, mkdir, append, content, createDirectory(f, filePath),
                 appendFile(f, filePath, content.data))

\* main.ts:536-572  DELETE /fs/*
deleteResponse(f, filePath, result) ==
    IF IsRootPath(filePath) THEN Answer(400, "error", f)
    ELSE IF ~result.success
    THEN IF result.error = "not empty" THEN Answer(409, "DIRECTORY_NOT_EMPTY", f)
         ELSE Answer(500, "error", f)
    ELSE [resp |-> [NoResp EXCEPT !.status = 200, !.body = "deleted",
                       !.path = result.path],
          fs |-> result.fs]

handleDelete(f, filePath, recursive) ==
    deleteResponse(f, filePath, deleteFileOrDirectory(f, filePath, recursive))

(***************************************************************************)
(* mcp.ts: the file tools of createMcpServer (part_012:1074-1234)          *)
(***************************************************************************)
writeFileTool(result) ==
    [resp |-> [NoResp EXCEPT !.status = 200, !.body = "text", !.items = 1,
                  !.text = "JSON.stringify(result)", !.opFailed = ~result.success,
                  !.isError = ~result.success, !.path = result.path],
     fs |-> result.fs]

toolWriteFile(f, filePath, content) == writeFileTool(writeFile(f, filePath, content))

readFileTool(f, result) ==
    [resp |-> [NoResp EXCEPT !.status = 200, !.body = "text", !.items = 1,
                  !.text = "JSON.stringify(result)", !.opFailed = ~result.ok,
                  !.isError = ~result.ok,
                  !.path = result.path, !.data = result.content, !.read = result.read],
     fs |-> f]

toolReadFile(f, filePath) == readFileTool(f, readFile(f, filePath))

listFilesTool(f, result) ==
    [resp |-> [NoResp EXCEPT !.status = 200, !.body = "text", !.items = 1,
                  !.text = "JSON.stringify(result)", !.opFailed = ~result.ok,
                  !.isError = ~result.ok,
                  !.path = result.path, !.entries = result.entries,
                  !.read = result.read],
     fs |-> f]

toolListFiles(f, dirPath) == listFilesTool(f, listFiles(f, dirPath))

(***************************************************************************)
(* POST /exec (main.ts:657-722) with runCommand and executeCode: the       *)
(* request either is answered at once or leaves a child process running,   *)
(* whose end produces the response                                         *)
(***************************************************************************)
\* what exec() finds when it starts the shell in working directory cwd, a path
\* the kernel resolves from the working directory of the server
spawnAt(f, l) ==
    IF l.st = "exists" /\ f[l.at].kind = "dir" THEN [ok |-> TRUE, at |-> l.at, code |-> ""]
    ELSE IF l.st = "exists" \/ l.st = "error"
    THEN [ok |-> FALSE, at |-> l.at, code |-> "ENOTDIR"]
    ELSE [ok |-> FALSE, at |-> l.at \o l.tail, code |-> "ENOENT"]

spawnIn(f, cwd) ==
    spawnAt(f, Lookup(f, IF isAbsolute(cwd) THEN Root ELSE AppLoc, Split(cwd)))

\* the error of a shell that could not be started: no output, code a string
SpawnError(code) ==
    [code |-> Str(code), stdout |-> <<>>, stderr |-> <<>>, message |-> <<"spawn /bin/sh", code>>]

\* runCommand up to exec() (part_012:266-276): the working directory it asks for
runCommandCwd(cwd) == IF cwd # <<>> THEN cwd ELSE SANDBOX_DIR

\* executeCode up to exec() (part_012:439-516): a result returned without running
\* anything, or the directory to run in; tempFile tells whether the temp file
\* had been written by then
executeCodeStart(code, language, cwd) ==
    LET resolvedCwd == resolveAgainstSandbox(cwd)
        normalizedCwd == normalize(resolvedCwd)
        executionDir == IF cwd # <<>> THEN normalizedCwd
                        ELSE IF language = "py" THEN PYTHON_CODE_DIR ELSE JS_TS_CODE_DIR
        early(stderr, wrote) ==
            [run |-> FALSE, dir |-> <<>>, tempFile |-> wrote,
             result |-> [stdout |-> <<>>, stderr |-> <<stderr>>, exitCode |-> Num(1),
                         language |-> language]]
    IN  IF language \notin {"js", "ts", "py"} THEN early("Unsupported language", FALSE)
        ELSE IF trim(code) = <<>> THEN early("Code cannot be empty", FALSE)
        ELSE IF cwd # <<>> /\ ~startsWith(normalizedCwd, SANDBOX_DIR)
        THEN early("Access denied: Working directory is outside of sandbox", TRUE)
        ELSE [run |-> TRUE, dir |-> executionDir, tempFile |-> TRUE, result |-> NoResult]

\* main.ts:702-710  the status the result is sent with
ExecStatus(result) == IF NonZero(result.exitCode) THEN 500 ELSE 200

ExecResponse(result, child) ==
    [NoResp EXCEPT !.status = ExecStatus(result), !.body = "result", !.result = result,
                   !.child = child]

\* (variant: an unrecognised language is reported as a failed result)
executeToolInvalidLanguageAsResult(language) ==
    [NoResp EXCEPT !.status = 200, !.body = "text", !.items = 1,
                   !.text = "JSON.stringify(result)", !.isError = TRUE,
                   !.result = [stdout |-> <<>>, stderr |-> <<"Invalid language">>,
                               exitCode |-> Num(1), language |-> "null"]]

\* mcp.ts execute tool (part_012:1014-1026): a language that is given and not
\* recognised is answered with a message, nothing is run
executeToolInvalidLanguage(language) ==
    [NoResp EXCEPT !.status = 200, !.body = "text", !.items = 1,
                   !.text = "Invalid language: ...", !.isError = TRUE]

\* mcp.ts execute tool (part_012:1044-1052): the result of runCommand or
\* executeCode as the one text item
executeTool(result, child) ==
    [NoResp EXCEPT !.status = 200, !.body = "text", !.items = 1,
                   !.text = "JSON.stringify(result)",
                   !.isError = NonZero(result.exitCode),
                   !.result = result, !.child = child]

\* what the caller of runCommand / executeCode makes of the result: the HTTP
\* handler of /exec or the execute tool
ExecAnswer(op, result, child) ==
    IF op = "mcp execute" THEN executeTool(result, child) ELSE ExecResponse(result, child)

ExecRequestVia(op, commands, languages, cwds, timeouts, probes) ==
    /\ Admits
    /\ \E command \in commands, language \in languages, cwd \in cwds,
          timeoutSecs \in timeouts, uniqueId \in TempIds, probe \in probes :
        LET normalizedLang == normalizeLanguage(language)
            timeoutMs == TimeoutMs(timeoutSecs)
            shell == spawnIn(fs, runCommandCwd(cwd))
            start == executeCodeStart(command.text, normalizedLang, cwd)
            code == spawnIn(fs, start.dir)
            child(kind, lang, id) ==
                [phase |-> "running", kind |-> kind, language |-> lang,
                 timeoutMs |-> timeoutMs, elapsed |-> 0, stdout |-> <<>>, stderr |-> <<>>,
                 tempFile |-> id]
            failed(sp) == [NoChild EXCEPT !.ended = sp.code]
        IN  /\ activityTracking(IF op = "mcp execute" THEN "/mcp" ELSE "/exec", probe)
            /\ lastReq' = [NoReq EXCEPT !.op = op, !.command = command,
                              !.language = language, !.cwd = cwd,
                              !.timeoutSecs = timeoutSecs, !.probe = probe,
                              !.real = IF normalizedLang \in {"null", "shell"}
                                       THEN shell.at ELSE code.at]
            /\ IF op = "POST /exec" /\ ~Provided(command)
               THEN /\ lastResp' = [NoResp EXCEPT !.status = 400,
                                                  !.body = "Command is required"]
                    /\ UNCHANGED exec
               ELSE IF Provided(language) /\ normalizedLang = "null"
               THEN /\ lastResp' = IF op = "mcp execute"
                                   THEN executeToolInvalidLanguage(language)
                                   ELSE [NoResp EXCEPT !.status = 400,
                                                       !.body = "Invalid language"]
                    /\ UNCHANGED exec
               ELSE IF normalizedLang \in {"null", "shell"}
               THEN IF shell.ok
                    THEN /\ exec' = child("shell", "shell", 0)
                         /\ lastResp' = NoResp
                    ELSE /\ lastResp' = ExecAnswer(op,
                                withShellLanguage(runCommandFailure(SpawnError(shell.code))),
                                failed(shell))
                         /\ UNCHANGED exec
               ELSE IF ~start.run
               THEN /\ lastResp' = ExecAnswer(op, start.result, NoChild)
                    /\ UNCHANGED exec
               ELSE IF code.ok
                    THEN /\ exec' = child("code", normalizedLang, uniqueId)
                         /\ lastResp' = NoResp
                    ELSE /\ lastResp' = ExecAnswer(op,
                                executeCodeFailure(SpawnError(code.code), normalizedLang),
                                failed(code))
                         /\ UNCHANGED exec
    /\ UNCHANGED <<lifeVars, fs>>

ExecRequestOn(commands, languages, cwds, timeouts, probes) ==
    ExecRequestVia("POST /exec", commands, languages, cwds, timeouts, probes)

ExecRequest == ExecRequestOn(Commands, Languages, Cwds, TimeoutSecs, {FALSE})

\* the child writes a chunk to stdout / stderr (exec() stops collecting when its
\* timer fires)
ChildStdout ==
    /\ exec.phase = "running"
    /\ Len(exec.stdout) < MaxOutput
    /\ exec' = [exec EXCEPT !.stdout = Append(@, "out")]
    /\ UNCHANGED <<lifeVars, fs, lastReq, lastResp, lastActivityAt>>

ChildStderr ==
    /\ exec.phase = "running"
    /\ Len(exec.stderr) < MaxOutput
    /\ exec' = [exec EXCEPT !.stderr = Append(@, "err")]
    /\ UNCHANGED <<lifeVars, fs, lastReq, lastResp, lastActivityAt>>

\* a second passes while the child runs under a timeout
Tick ==
    /\ exec.phase = "running"
    /\ exec.timeoutMs > 0
    /\ exec.elapsed < exec.timeoutMs
    /\ exec' = [exec EXCEPT !.elapsed = @ + MsPerSec]
    /\ UNCHANGED <<lifeVars, fs, lastReq, lastResp, lastActivityAt>>

\* exec()'s timer: at options.timeout it sends the child the kill signal (SIGTERM)
TimeoutKill ==
    /\ exec.phase = "running"
    /\ exec.timeoutMs > 0
    /\ exec.elapsed >= exec.timeoutMs
    /\ exec' = [exec EXCEPT !.phase = "signalled"]
    /\ UNCHANGED <<lifeVars, fs, lastReq, lastResp, lastActivityAt>>

\* the result runCommand / executeCode return when exec() ends: resolved when the
\* child exited with status 0 (and by no signal), rejected with err otherwise
ExecResult(kind, language, ok, err) ==
    IF kind = "shell"
    THEN withShellLanguage(IF ok THEN [stdout |-> err.stdout, stderr |-> err.stderr,
                                       exitCode |-> Num(0)]
                           ELSE runCommandFailure(err))
    ELSE IF ok THEN [stdout |-> err.stdout, stderr |-> err.stderr, exitCode |-> Num(0),
                     language |-> language]
         ELSE executeCodeFailure(err, language)

ChildEnds(code, ended, status) ==
    LET err == [code |-> code, stdout |-> exec.stdout, stderr |-> exec.stderr,
                message |-> CommandFailed(exec.stderr)]
        ok == code.t = "num" /\ code.n = 0
    IN  /\ lastResp' = ExecAnswer(lastReq.op, ExecResult(exec.kind, exec.language, ok, err),
                                    [spawned |-> TRUE, ended |-> ended, status |-> status,
                                     timedOut |-> exec.phase = "signalled"])
        /\ exec' = Idle        \* executeCode's finally has unlinked the temp file
        /\ UNCHANGED <<lifeVars, fs, lastReq, lastActivityAt>>

\* the child exits by itself: before the timeout, or after the signal if it
\* handles the signal
ChildExit ==
    /\ \/ exec.phase = "running" /\ (exec.timeoutMs = 0 \/ exec.elapsed < exec.timeoutMs)
       \/ exec.phase = "signalled"
    /\ \E status \in 0..MaxExitCode : ChildEnds(Num(status), "exit", status)

\* the child dies of the signal the timeout sent: err.code is null
ChildKilled ==
    /\ exec.phase = "signalled"
    /\ ChildEnds(Null, "signal", 0)

(***************************************************************************)
(* The file endpoints as actions, on a service that is up                  *)
(***************************************************************************)
SegD == <<"d">>
SegF == <<"f">>
SegN == <<"n">>
SegX == <<"x">>
SegSandbox2 == SegSandbox \o <<"2">>
LnkLoc == <<SegSandbox, SegLnk>>

\* the paths the file requests are tried with
FsPaths ==
    {<<>>, <<Slash>>,                                 \* the root: /fs/ and /fs//
     JoinSegs(<<SegD>>),                              \* d
     JoinSegs(<<SegD, SegF>>),                        \* d/f
     ToStr(<<SegSandbox, SegD>>),                     \* /sandbox/d
     JoinSegs(<<DotDot, SegEtc, SegPasswd>>),         \* ../etc/passwd
     ToStr(<<SegEtc, SegPasswd>>),                    \* /etc/passwd
     ToStr(<<SegSandbox2, SegX>>),                    \* /sandbox2/x
     JoinSegs(<<DotDot, SegSandbox2>>),               \* ../sandbox2
     JoinSegs(<<SegLnk>>),                            \* lnk
     JoinSegs(<<SegLnk, SegPasswd>>),                 \* lnk/passwd
     JoinSegs(<<SegLnk, SegN>>)}                      \* lnk/n

\* the request bodies: none (req.body undefined, or {} as express 4 leaves it),
\* or one byte
Bodies == {NoBody, EmptyObject, Body(<<1>>)}

\* the bodies of a PUT: none, or one of two different bytes
PutBodies == Bodies \cup {Body(<<2>>)}

\* where the kernel finds (or would create) the file a request path names
RealLocOf(l) == IF l.st = "missing" THEN l.at \o l.tail ELSE l.at

RealLoc(f, p) == RealLocOf(Locate(f, resolveAgainstSandbox(p)))

\* the locations that differ between two filesystems
Touched(f, g) ==
    {q \in DOMAIN f \cup DOMAIN g : q \notin DOMAIN f \/ q \notin DOMAIN g \/ f[q] # g[q]}

\* no file grows beyond MaxData bytes
WithinData(f) == \A q \in DOMAIN f : Len(f[q].data) <= MaxData

McpOps == {"mcp write-file", "mcp read-file", "mcp list-files"}

FsRespond(req, ans) ==
    /\ WithinData(ans.fs)
    /\ lastReq' = [req EXCEPT !.real = RealLoc(fs, req.path)]
    /\ lastResp' = [ans.resp EXCEPT !.touched = Touched(fs, ans.fs)]
    /\ fs' = ans.fs
    /\ activityTracking(IF req.op \in McpOps THEN "/mcp" ELSE "/fs", req.probe)
    /\ UNCHANGED <<lifeVars, exec>>

FsGetOn(paths) ==
    /\ Admits
    /\ \E p \in paths, download \in BOOLEAN :
        FsRespond([NoReq EXCEPT !.op = "GET /fs", !.path = p, !.flag = download],
                  handleGet(fs, p, download))

FsGet == FsGetOn(FsPaths)

FsHead ==
    /\ Admits
    /\ \E p \in FsPaths :
        FsRespond([NoReq EXCEPT !.op = "HEAD /fs", !.path = p], handleHead(fs, p))

FsPutOn(paths, bodies) ==
    /\ Admits
    /\ \E p \in paths, content \in bodies :
        FsRespond([NoReq EXCEPT !.op = "PUT /fs", !.path = p, !.content = content],
                  handlePut(fs, p, content))

FsPut == FsPutOn(FsPaths, Bodies)

FsPostOn(paths) ==
    /\ Admits
    /\ \E p \in paths, mkdir \in BOOLEAN, append \in BOOLEAN, content \in Bodies :
        FsRespond([NoReq EXCEPT !.op = "POST /fs", !.path = p, !.content = content,
                                !.flag = mkdir, !.append = append],
                  handlePost(fs, p, mkdir, append, content))

FsPost == FsPostOn(FsPaths)

FsDeleteOn(paths) ==
    /\ Admits
    /\ \E p \in paths, recursive \in BOOLEAN :
        FsRespond([NoReq EXCEPT !.op = "DELETE /fs", !.path = p, !.flag = recursive],
                  handleDelete(fs, p, recursive))

FsDelete == FsDeleteOn(FsPaths)

McpWriteFile ==
    /\ Admits
    /\ \E p \in FsPaths :
        FsRespond([NoReq EXCEPT !.op = "mcp write-file", !.path = p,
                                !.content = Body(<<1>>)],
                  toolWriteFile(fs, p, <<1>>))

McpReadFile ==
    /\ Admits
    /\ \E p \in FsPaths :
        FsRespond([NoReq EXCEPT !.op = "mcp read-file", !.path = p], toolReadFile(fs, p))

McpListFilesOn(paths) ==
    /\ Admits
    /\ \E p \in paths :
        FsRespond([NoReq EXCEPT !.op = "mcp list-files", !.path = p], toolListFiles(fs, p))

McpListFiles == McpListFilesOn(FsPaths)

\* the same two requests for the sandbox root alone
FsGetRoot == FsGetOn({<<>>})
McpListRoot == McpListFilesOn({<<>>})

\* the user, in the terminal or through a shell command:  ln -s /etc /sandbox/lnk
ShellSymlink ==
    /\ Admits
    /\ SandboxLoc \in DOMAIN fs
    /\ fs[SandboxLoc].kind = "dir"
    /\ LnkLoc \notin DOMAIN fs
    /\ fs' = (LnkLoc :> Link(<<SegEtc>>)) @@ fs
    /\ activityTracking("/exec", FALSE)
    /\ UNCHANGED <<lifeVars, exec, lastReq, lastResp>>

\* code run with a working directory given by the caller
FsCwds ==
    {JoinSegs(<<SegD>>), JoinSegs(<<DotDot, SegEtc>>), ToStr(<<SegSandbox2>>),
     JoinSegs(<<SegLnk>>)}

ExecRequestCwd ==
    ExecRequestOn({Given(<<"l", "s">>)}, {Absent, Given(<<"p", "y">>)}, FsCwds, {0},
                  {FALSE})

(***************************************************************************)
(* The service from process start: startup, then /health, /exec and the    *)
(* listing of the sandbox root                                             *)
(***************************************************************************)
Init ==
    /\ isLocalMode \in BOOLEAN
    /\ input \in [initShellScript : InitScripts, idleTimeoutSeconds : {Null},
                 nodeDependencies : {"deps"}, pythonRequirementsTxt : {"reqs"}]
    /\ pc = "restore"
    /\ restoredFromMigration = FALSE
    /\ initializationComplete = FALSE
    /\ initializationError = NoError
    /\ startupMarker = FALSE
    /\ migrationHandler = FALSE
    /\ startupLog = <<>>
    /\ exec = Idle
    /\ fs = InitialFs
    /\ lastReq = NoReq
    /\ lastResp = NoResp
    /\ now = 0
    /\ lastActivityAt = 0
    /\ idleTimer = NoTimer
    /\ exit = NoExit
    /\ shellSocket = NoSocket
    /\ readyAt = 0
    /\ ttyd = NoTtyd
    /\ disk = ImageDisk
    /\ pkgs = NoPkgs
    /\ kv \in {NoSnapshot, EmptySnapshot}
    /\ boot = 1
    /\ userWrote = NoWrites
    /\ migrating = NotMigrating
    /\ mcp = NoMcp
    /\ tmpFiles = NoTmpFiles
    /\ runs = NoRuns
    /\ httpRes = NoRes

Next ==
    \/ RestoreMigrationDownloaded
    \/ SetupEnvironment
    \/ RunInitScript
    \/ InitializePersistence
    \/ RegisterMigrationHandler
    \/ MarkComplete
    \/ Listen
    \/ HealthRequest
    \/ ExecRequest
    \/ ChildStdout
    \/ ChildStderr
    \/ Tick
    \/ TimeoutKill
    \/ ChildExit
    \/ ChildKilled
    \/ FsGetRoot
    \/ McpListRoot
    \/ ResponseSent

Spec == Init /\ [][Next]_vars

\* the service up after a fresh start in the cloud, without an init script
InitFs ==
    /\ isLocalMode = FALSE
    /\ input = [initShellScript |-> "none", idleTimeoutSeconds |-> Null,
               nodeDependencies |-> "deps", pythonRequirementsTxt |-> "reqs"]
    /\ pc = "serving"
    /\ restoredFromMigration = FALSE
    /\ initializationComplete = TRUE
    /\ initializationError = NoError
    /\ startupMarker = TRUE
    /\ migrationHandler = TRUE
    /\ startupLog = <<<<"restore", "false", "nothing">>, <<"install", "ok">>, <<"complete", "">>,
                      <<"listen", "">>>>
    /\ exec = Idle
    /\ fs = InitialFs
    /\ lastReq = NoReq
    /\ lastResp = NoResp
    /\ now = 0
    /\ lastActivityAt = 0
    /\ idleTimer = [set |-> TRUE, at |-> CheckIntervalMs]
    /\ exit = NoExit
    /\ shellSocket = NoSocket
    /\ readyAt = 0
    /\ ttyd = SpawnedTtyd(NoTtyd, 0)
    /\ disk = ImageDisk
    /\ pkgs = NoPkgs
    /\ kv = NoSnapshot
    /\ boot = 1
    /\ userWrote = NoWrites
    /\ migrating = NotMigrating
    /\ mcp = NoMcp
    /\ tmpFiles = NoTmpFiles
    /\ runs = NoRuns
    /\ httpRes = NoRes

NextFs ==
    \/ FsGet
    \/ FsHead
    \/ FsPut
    \/ FsPost
    \/ FsDelete
    \/ McpWriteFile
    \/ McpReadFile
    \/ McpListFiles
    \/ ShellSymlink
    \/ ExecRequestCwd
    \/ ChildExit
    \/ ResponseSent

SpecFs == InitFs /\ [][NextFs]_vars

(***************************************************************************)
(* The file endpoints on a few paths: a file, its directory, other         *)
(* spellings of the sandbox root, and a path through a symbolic link       *)
(***************************************************************************)
FilePaths ==
    {<<>>, <<Slash>>,                                 \* the root: /fs/ and /fs//
     JoinSegs(<<Dot>>),                               \* .
     JoinSegs(<<SegD>>),                              \* d
     JoinSegs(<<SegD, SegF>>),                        \* d/f
     JoinSegs(<<SegD, DotDot>>),                      \* d/..
     ToStr(<<SegSandbox>>),                           \* /sandbox
     JoinSegs(<<SegLnk, SegN>>)}                      \* lnk/n

PutFile == FsPutOn(FilePaths, PutBodies)
PostFile == FsPostOn(FilePaths)
DeleteFile == FsDeleteOn(FilePaths)
GetFile == FsGetOn(FilePaths)

NextFiles ==
    \/ PutFile
    \/ PostFile
    \/ DeleteFile
    \/ GetFile
    \/ ShellSymlink
    \/ ResponseSent

SpecFiles == InitFs /\ [][NextFiles]_vars

(***************************************************************************)
(* The service with the clock running: startup, requests with and without  *)
(* the readiness-probe header, the terminal socket and the idle check      *)
(***************************************************************************)
\* time passes; a timer that is due runs first, and the code from the end of
\* initialization to server.listen() is synchronous
ClockAdvanceBy(step, horizon) ==
    /\ ~exit.triggered
    /\ pc # "listen"
    /\ now + step <= horizon
    /\ idleTimer.set => now + step <= idleTimer.at
    /\ ttyd.state = "waiting" => now + step <= ttyd.respawnAt
    /\ now' = now + step
    /\ UNCHANGED <<isLocalMode, input, pc, restoredFromMigration, initializationComplete,
                   initializationError, startupMarker, migrationHandler, startupLog,
                   exec, fs, lastReq, lastResp, lastActivityAt, idleTimer, exit,
                   shellSocket, readyAt, auxVars>>

ClockAdvance == ClockAdvanceBy(ClockStep, MaxChecks * CheckIntervalMs)

\* (variant: a further check interval is allowed)
idleExceededLate(idleTimeMs, secs) == idleTimeMs > secs * MsPerSec + CheckIntervalMs

\* (variant: the timeout itself counts as exceeded)
idleExceededOrEqual(idleTimeMs, secs) == idleTimeMs >= secs * MsPerSec

\* main.ts:871  if (idleTimeMs > idleTimeoutSecs * 1000)
idleExceeded(idleTimeMs, secs) == idleTimeMs > secs * MsPerSec

\* (variant: the callback returns at once while an exit is in progress)
IdleCheckOnce ==
    /\ ~exit.ended
    /\ idleTimer.set
    /\ now = idleTimer.at
    /\ LET idleTimeMs == now - lastActivityAt
           secs == idleTimeoutSecs(input)
       IN  exit' = IF idleExceeded(idleTimeMs, secs) /\ ~exit.triggered
                   THEN [triggered |-> TRUE, at |-> now, idleTimeMs |-> idleTimeMs,
                         minutes |-> secs \div 60, calls |-> 1, ended |-> FALSE]
                   ELSE exit
    /\ idleTimer' = [idleTimer EXCEPT !.at = @ + CheckIntervalMs]
    /\ UNCHANGED <<isLocalMode, input, pc, restoredFromMigration, initializationComplete,
                   initializationError, startupMarker, migrationHandler, startupLog,
                   exec, fs, lastReq, lastResp, now, lastActivityAt, shellSocket,
                   readyAt, auxVars>>

\* main.ts:869-877  the callback of the idle check: the interval is never
\* cleared and the callback looks at nothing but the idle time, so it runs
\* and calls Actor.exit as long as the process lives
IdleCheck ==
    /\ ~exit.ended
    /\ idleTimer.set
    /\ now = idleTimer.at
    /\ LET idleTimeMs == now - lastActivityAt
           secs == idleTimeoutSecs(input)
       IN  exit' = IF ~idleExceeded(idleTimeMs, secs) THEN exit
                   ELSE IF exit.triggered THEN [exit EXCEPT !.calls = @ + 1]
                   ELSE [triggered |-> TRUE, at |-> now, idleTimeMs |-> idleTimeMs,
                         minutes |-> secs \div 60, calls |-> 1, ended |-> FALSE]
    /\ idleTimer' = [idleTimer EXCEPT !.at = @ + CheckIntervalMs]
    /\ UNCHANGED <<isLocalMode, input, pc, restoredFromMigration, initializationComplete,
                   initializationError, startupMarker, migrationHandler, startupLog,
                   exec, fs, lastReq, lastResp, now, lastActivityAt, shellSocket,
                   readyAt, auxVars>>

\* time passes while Actor.exit() is awaited: it closes the event manager,
\* waits for the listeners and sets the status message before process.exit
ExitClock ==
    /\ exit.triggered
    /\ ~exit.ended
    /\ now + ClockStep <= MaxChecks * CheckIntervalMs
    /\ idleTimer.set => now + ClockStep <= idleTimer.at
    /\ now' = now + ClockStep
    /\ UNCHANGED <<isLocalMode, input, pc, restoredFromMigration, initializationComplete,
                   initializationError, startupMarker, migrationHandler, startupLog,
                   exec, fs, lastReq, lastResp, lastActivityAt, idleTimer, exit,
                   shellSocket, readyAt, auxVars>>

\* Actor.exit() reaches process.exit: the process, and its interval, are gone
ExitCompletes ==
    /\ exit.triggered
    /\ ~exit.ended
    /\ exit' = [exit EXCEPT !.ended = TRUE]
    /\ UNCHANGED <<isLocalMode, input, pc, restoredFromMigration, initializationComplete,
                   initializationError, startupMarker, migrationHandler, startupLog,
                   exec, fs, lastReq, lastResp, now, lastActivityAt, idleTimer,
                   shellSocket, readyAt, auxVars>>

\* main.ts:786-798  server.on('upgrade') for a /shell URL: the socket is handed to
\* the proxy with a 'data' listener on it
ShellUpgrade ==
    /\ Serving
    /\ ~exit.triggered
    /\ ~shellSocket.open
    /\ shellSocket' = [shellSocket EXCEPT !.open = TRUE]
    /\ UNCHANGED <<isLocalMode, input, pc, restoredFromMigration, initializationComplete,
                   initializationError, startupMarker, migrationHandler, startupLog,
                   exec, fs, lastReq, lastResp, now, lastActivityAt, idleTimer, exit,
                   readyAt, auxVars>>

\* main.ts:792-794  the client sends bytes: the socket emits 'data'
ShellClientData ==
    /\ shellSocket.open
    /\ ~exit.triggered
    /\ lastActivityAt' = now
    /\ shellSocket' = [shellSocket EXCEPT !.lastByteAt = now, !.lastFrom = "client"]
    /\ UNCHANGED <<isLocalMode, input, pc, restoredFromMigration, initializationComplete,
                   initializationError, startupMarker, migrationHandler, startupLog,
                   exec, fs, lastReq, lastResp, now, idleTimer, exit, readyAt, auxVars>>

\* (variant: the terminal's output counts as activity)
ShellPtyDataTracked ==
    /\ shellSocket.open
    /\ ~exit.triggered
    /\ lastActivityAt' = now
    /\ shellSocket' = [shellSocket EXCEPT !.lastByteAt = now, !.lastFrom = "pty"]
    /\ UNCHANGED <<isLocalMode, input, pc, restoredFromMigration, initializationComplete,
                   initializationError, startupMarker, migrationHandler, startupLog,
                   exec, fs, lastReq, lastResp, now, idleTimer, exit, readyAt, auxVars>>

\* main.ts:796  the proxy writes the terminal's output to the socket: a write
\* emits no 'data' event on the socket written to
ShellPtyData ==
    /\ shellSocket.open
    /\ ~exit.triggered
    /\ shellSocket' = [shellSocket EXCEPT !.lastByteAt = now, !.lastFrom = "pty"]
    /\ UNCHANGED <<isLocalMode, input, pc, restoredFromMigration, initializationComplete,
                   initializationError, startupMarker, migrationHandler, startupLog,
                   exec, fs, lastReq, lastResp, now, lastActivityAt, idleTimer, exit,
                   readyAt, auxVars>>

\* requests that may carry the readiness-probe header
HealthProbe == HealthRequestOn(BOOLEAN)
ExecProbe == ExecRequestOn({Given(<<"l", "s">>)}, {Absent}, {<<>>}, {0}, BOOLEAN)

InitIdle ==
    /\ isLocalMode = FALSE
    /\ input \in [initShellScript : {"none"}, idleTimeoutSeconds : IdleTimeouts,
                 nodeDependencies : {"deps"}, pythonRequirementsTxt : {"reqs"}]
    /\ pc = "restore"
    /\ restoredFromMigration = FALSE
    /\ initializationComplete = FALSE
    /\ initializationError = NoError
    /\ startupMarker = FALSE
    /\ migrationHandler = FALSE
    /\ startupLog = <<>>
    /\ exec = Idle
    /\ fs = InitialFs
    /\ lastReq = NoReq
    /\ lastResp = NoResp
    /\ now = 0
    /\ lastActivityAt = 0
    /\ idleTimer = NoTimer
    /\ exit = NoExit
    /\ shellSocket = NoSocket
    /\ readyAt = 0
    /\ ttyd = NoTtyd
    /\ disk = ImageDisk
    /\ pkgs = NoPkgs
    /\ kv = NoSnapshot
    /\ boot = 1
    /\ userWrote = NoWrites
    /\ migrating = NotMigrating
    /\ mcp = NoMcp
    /\ tmpFiles = NoTmpFiles
    /\ runs = NoRuns
    /\ httpRes = NoRes

NextIdle ==
    \/ RestoreMigrationDownloaded
    \/ SetupEnvironment
    \/ RunInitScript
    \/ InitializePersistence
    \/ RegisterMigrationHandler
    \/ MarkComplete
    \/ Listen
    \/ ClockAdvance
    \/ IdleCheck
    \/ HealthProbe
    \/ ExecProbe
    \/ ChildExit
    \/ ResponseSent
    \/ ShellUpgrade
    \/ ShellClientData
    \/ ShellPtyData

SpecIdle == InitIdle /\ [][NextIdle]_vars

\* the same with an exit that takes its time
NextExit ==
    \/ RestoreMigrationDownloaded
    \/ SetupEnvironment
    \/ RunInitScript
    \/ InitializePersistence
    \/ RegisterMigrationHandler
    \/ MarkComplete
    \/ Listen
    \/ ClockAdvance
    \/ IdleCheck
    \/ ExitClock
    \/ ExitCompletes
    \/ HealthProbe
    \/ ShellUpgrade
    \/ ShellClientData

SpecExit == InitIdle /\ [][NextExit]_vars

(***************************************************************************)
(* The terminal's PTY server under supervision (main.ts:729-752)           *)
(***************************************************************************)
\* (variant: the delay grows with the number of exits)
respawnDelayBackoff(exits) == RespawnDelayMs * (exits + 1)

\* main.ts:746  the delay of setTimeout(spawnTtyd, 5000)
respawnDelay(exits) == RespawnDelayMs

\* main.ts:740-742  ttyd.on('error'): the child could not be started; the handler
\* logs, and a child that was never started emits no 'exit'
TtydError ==
    /\ ~exit.triggered
    /\ ttyd.state = "spawned"
    /\ now = ttyd.spawnedAt
    /\ ttyd' = [ttyd EXCEPT !.state = "failed", !.alive = @ - 1]
    /\ UNCHANGED <<isLocalMode, input, pc, restoredFromMigration, initializationComplete,
                   initializationError, startupMarker, migrationHandler, startupLog,
                   exec, fs, lastReq, lastResp, lastActivityAt, idleVars, migVars, reqVars>>

\* main.ts:744-747  ttyd.on('exit'): the child ended with a code, or by a signal
\* (code null); the respawn is scheduled
TtydExit ==
    /\ ~exit.triggered
    /\ ttyd.state = "spawned"
    /\ \E code \in {Num(n) : n \in 0..MaxExitCode} \cup {Null} :
          ttyd' = [ttyd EXCEPT !.state = "waiting", !.code = code,
                               !.exits = @ + 1, !.exitedAt = now,
                               !.alive = @ - 1, !.timers = @ + 1,
                               !.respawnAt = now + respawnDelay(ttyd.exits)]
    /\ UNCHANGED <<isLocalMode, input, pc, restoredFromMigration, initializationComplete,
                   initializationError, startupMarker, migrationHandler, startupLog,
                   exec, fs, lastReq, lastResp, lastActivityAt, idleVars, migVars, reqVars>>

\* (variant: the exit handler sets an interval, which stays after it ran)
TtydRespawnByInterval ==
    /\ ~exit.triggered
    /\ ttyd.state = "waiting"
    /\ now = ttyd.respawnAt
    /\ ttyd' = SpawnedTtyd(ttyd, now)
    /\ UNCHANGED <<isLocalMode, input, pc, restoredFromMigration, initializationComplete,
                   initializationError, startupMarker, migrationHandler, startupLog,
                   exec, fs, lastReq, lastResp, lastActivityAt, idleVars, migVars, reqVars>>

\* main.ts:746  the timer set by the exit handler runs spawnTtyd, once
TtydRespawn ==
    /\ ~exit.triggered
    /\ ttyd.state = "waiting"
    /\ now = ttyd.respawnAt
    /\ ttyd' = SpawnedTtyd([ttyd EXCEPT !.timers = @ - 1], now)
    /\ UNCHANGED <<isLocalMode, input, pc, restoredFromMigration, initializationComplete,
                   initializationError, startupMarker, migrationHandler, startupLog,
                   exec, fs, lastReq, lastResp, lastActivityAt, idleVars, migVars, reqVars>>

\* time in steps that meet the respawn timer
MaxRespawns == 3      \* respawn delays the clock runs for
ShellClockStep == RespawnDelayMs \div 2
ClockTick == ClockAdvanceBy(ShellClockStep, MaxRespawns * RespawnDelayMs)

InitShell ==
    /\ isLocalMode \in BOOLEAN
    /\ input \in [initShellScript : {"none", "script"}, idleTimeoutSeconds : {Num(0)},
                 nodeDependencies : {"deps"}, pythonRequirementsTxt : {"reqs"}]
    /\ pc = "restore"
    /\ restoredFromMigration = FALSE
    /\ initializationComplete = FALSE
    /\ initializationError = NoError
    /\ startupMarker = FALSE
    /\ migrationHandler = FALSE
    /\ startupLog = <<>>
    /\ exec = Idle
    /\ fs = InitialFs
    /\ lastReq = NoReq
    /\ lastResp = NoResp
    /\ now = 0
    /\ lastActivityAt = 0
    /\ idleTimer = NoTimer
    /\ exit = NoExit
    /\ shellSocket = NoSocket
    /\ readyAt = 0
    /\ ttyd = NoTtyd
    /\ disk = ImageDisk
    /\ pkgs = NoPkgs
    /\ kv = NoSnapshot
    /\ boot = 1
    /\ userWrote = NoWrites
    /\ migrating = NotMigrating
    /\ mcp = NoMcp
    /\ tmpFiles = NoTmpFiles
    /\ runs = NoRuns
    /\ httpRes = NoRes

NextShell ==
    \/ RestoreMigrationDownloaded
    \/ SetupEnvironment
    \/ RunInitScript
    \/ InitializePersistence
    \/ RegisterMigrationHandler
    \/ MarkComplete
    \/ Listen
    \/ ClockTick
    \/ TtydError
    \/ TtydExit
    \/ TtydRespawn

SpecShell == InitShell /\ [][NextShell]_vars

(***************************************************************************)
(* Migration: the user's commands change files and install packages, the   *)
(* platform signals 'migrating' and starts the run again in a new container *)
(***************************************************************************)
MaxBoots == 3         \* starts of the container

\* what a command writes: content, permission bits, and whether it stamps the
\* file with the time of writing or keeps an older mtime (tar -x, cp -p)
Writes == {[data |-> 1, mode |-> 644, preserve |-> FALSE],
           [data |-> 2, mode |-> 755, preserve |-> FALSE],
           [data |-> 1, mode |-> 644, preserve |-> TRUE]}

\* a command run through /exec or the terminal writes a file
UserWrite ==
    /\ Serving
    /\ \E path \in MigPaths, w \in Writes :
        \A file \in {RegularFile(w.data, w.mode, IF w.preserve THEN 0 ELSE boot)} :
            /\ disk' = [disk EXCEPT ![path] = file]
            /\ userWrote' = [userWrote EXCEPT !.files[path] = file]
    /\ UNCHANGED <<startVars, idleVars, ttyd, reqVars, pkgs, kv, boot, migrating,
                   exec, fs, lastReq, lastResp, lastActivityAt>>

\* a command installs a package: apt-get install (recorded in apt's history.log)
\* or the venv's pip install
UserInstall ==
    /\ Serving
    /\ \/ \E pkg \in AptPkgs :
            /\ pkgs' = [pkgs EXCEPT !.apt = @ \cup {pkg}]
            /\ userWrote' = [userWrote EXCEPT !.apt = @ \cup {pkg}]
       \/ \E pkg \in PipPkgs :
            /\ pkgs' = [pkgs EXCEPT !.pip = @ \cup {pkg}]
            /\ userWrote' = [userWrote EXCEPT !.pip = @ \cup {pkg}]
       \/ \E pkg \in NpmPkgs :
            /\ pkgs' = npmInstallSave(pkgs, {pkg}, startupMarker)
            /\ userWrote' = [userWrote EXCEPT !.npm = @ \cup {pkg}]
    /\ UNCHANGED <<startVars, idleVars, ttyd, reqVars, disk, kv, boot, migrating,
                   exec, fs, lastReq, lastResp, lastActivityAt>>

\* (variant: the handler takes the service out of readiness while it saves)
MigratingNotReady ==
    /\ Serving
    /\ kv' = IF migrationHandler
             THEN saveMigrationState(kv, disk, pkgs, startupMarker, boot, AllSaved).store
             ELSE kv
    /\ pc' = "migrated"
    /\ migrating' = [handled |-> migrationHandler, threw |-> FALSE,
                     caught |-> IF migrationHandler /\ ~startupMarker THEN "marker"
                                ELSE "nothing"]
    /\ initializationComplete' = FALSE
    /\ UNCHANGED <<isLocalMode, input, restoredFromMigration,
                   initializationError, startupMarker, migrationHandler, startupLog,
                   idleVars, ttyd, reqVars, disk, pkgs, boot, userWrote,
                   exec, fs, lastReq, lastResp, lastActivityAt>>

\* main.ts:143-150  the platform emits 'migrating': the handler, if one was
\* registered, saves the state; the container is stopped after it
MigratingOn(outcomes) ==
    /\ Serving
    /\ \E o \in outcomes :
       \A saved \in {IF migrationHandler
                     THEN saveMigrationState(kv, disk, pkgs, startupMarker, boot, o)
                     ELSE [store |-> kv, threw |-> FALSE, caught |-> "nothing"]} :
          /\ kv' = saved.store
          \* the handler catches what saveMigrationState throws and returns
          /\ pc' = "migrated"
          /\ migrating' = [handled |-> migrationHandler, threw |-> saved.threw,
                           caught |-> saved.caught]
    /\ UNCHANGED <<isLocalMode, input, restoredFromMigration, initializationComplete,
                   initializationError, startupMarker, migrationHandler, startupLog,
                   idleVars, ttyd, reqVars, disk, pkgs, boot, userWrote,
                   exec, fs, lastReq, lastResp, lastActivityAt>>

\* every step of the checkpoint succeeds
Migrating == MigratingOn({AllSaved})

\* the checkpoint with every outcome of its steps
MigratingAnyOutcome == MigratingOn(SaveOutcomes)

\* the run is started again in a new container made from the image: main.ts
\* runs from its first line, and only the key-value store is as it was left
Resurrect ==
    /\ pc = "migrated"
    /\ boot < MaxBoots
    /\ boot' = boot + 1
    /\ pc' = "restore"
    /\ restoredFromMigration' = FALSE
    /\ initializationComplete' = FALSE
    /\ initializationError' = NoError
    /\ startupMarker' = FALSE
    /\ migrationHandler' = FALSE
    /\ startupLog' = <<>>
    /\ disk' = ImageDisk
    /\ pkgs' = NoPkgs
    /\ ttyd' = NoTtyd
    /\ exec' = Idle
    /\ fs' = InitialFs
    /\ lastReq' = NoReq
    /\ lastResp' = NoResp
    /\ lastActivityAt' = now
    /\ idleTimer' = NoTimer
    /\ shellSocket' = NoSocket
    /\ mcp' = NoMcp
    /\ tmpFiles' = NoTmpFiles
    /\ runs' = NoRuns
    /\ httpRes' = NoRes
    /\ migrating' = NotMigrating
    /\ UNCHANGED <<isLocalMode, input, kv, userWrote, now, exit, readyAt>>

InitMigration ==
    /\ isLocalMode = FALSE
    /\ input = [initShellScript |-> "none", idleTimeoutSeconds |-> Num(0),
               nodeDependencies |-> "deps", pythonRequirementsTxt |-> "reqs"]
    /\ pc = "restore"
    /\ restoredFromMigration = FALSE
    /\ initializationComplete = FALSE
    /\ initializationError = NoError
    /\ startupMarker = FALSE
    /\ migrationHandler = FALSE
    /\ startupLog = <<>>
    /\ exec = Idle
    /\ fs = InitialFs
    /\ lastReq = NoReq
    /\ lastResp = NoResp
    /\ now = 0
    /\ lastActivityAt = 0
    /\ idleTimer = NoTimer
    /\ exit = NoExit
    /\ shellSocket = NoSocket
    /\ readyAt = 0
    /\ ttyd = NoTtyd
    /\ disk = ImageDisk
    /\ pkgs = NoPkgs
    /\ kv = NoSnapshot
    /\ boot = 1
    /\ userWrote = NoWrites
    /\ migrating = NotMigrating
    /\ mcp = NoMcp
    /\ tmpFiles = NoTmpFiles
    /\ runs = NoRuns
    /\ httpRes = NoRes

NextMigration ==
    \/ RestoreMigrationDownloaded
    \/ SetupEnvironment
    \/ RunInitScript
    \/ InitializePersistence
    \/ RegisterMigrationHandler
    \/ MarkComplete
    \/ Listen
    \/ UserWrite
    \/ UserInstall
    \/ Migrating
    \/ Resurrect

SpecMigration == InitMigration /\ [][NextMigration]_vars

\* migrations whose checkpoints and restores may fail at each of their steps
NextCheckpoint ==
    \/ RestoreMigration
    \/ SetupEnvironment
    \/ RunInitScript
    \/ InitializePersistence
    \/ RegisterMigrationHandler
    \/ MarkComplete
    \/ Listen
    \/ UserWrite
    \/ MigratingAnyOutcome
    \/ Resurrect

InitCheckpoint ==
    /\ isLocalMode = FALSE
    /\ input = [initShellScript |-> "none", idleTimeoutSeconds |-> Num(0),
               nodeDependencies |-> "none", pythonRequirementsTxt |-> "none"]
    /\ pc = "restore"
    /\ restoredFromMigration = FALSE
    /\ initializationComplete = FALSE
    /\ initializationError = NoError
    /\ startupMarker = FALSE
    /\ migrationHandler = FALSE
    /\ startupLog = <<>>
    /\ exec = Idle
    /\ fs = InitialFs
    /\ lastReq = NoReq
    /\ lastResp = NoResp
    /\ now = 0
    /\ lastActivityAt = 0
    /\ idleTimer = NoTimer
    /\ exit = NoExit
    /\ shellSocket = NoSocket
    /\ readyAt = 0
    /\ ttyd = NoTtyd
    /\ disk = ImageDisk
    /\ pkgs = NoPkgs
    /\ kv = NoSnapshot
    /\ boot = 1
    /\ userWrote = NoWrites
    /\ migrating = NotMigrating
    /\ mcp = NoMcp
    /\ tmpFiles = NoTmpFiles
    /\ runs = NoRuns
    /\ httpRes = NoRes

SpecCheckpoint == InitCheckpoint /\ [][NextCheckpoint]_vars

\* the stores a start can find: none, that of a run migrated with nothing
\* changed, that of a run in which a file was written and packages were
\* installed with apt, pip and npm, and the latter with its tarball record
\* deleted from the store
FullSnapshot ==
    saveMigrationState(NoSnapshot,
                       [ImageDisk EXCEPT ![UserFileA] = RegularFile(1, 644, 0)],
                       npmInstallSave([NoPkgs EXCEPT !.apt = AptPkgs, !.pip = PipPkgs],
                                      NpmPkgs, TRUE),
                       TRUE, 0, AllSaved).store

RestoreStores ==
    {NoSnapshot, EmptySnapshot, FullSnapshot,
     [FullSnapshot EXCEPT !.tarball = NoTarball]}

InitRestore ==
    /\ isLocalMode \in BOOLEAN
    /\ input = [initShellScript |-> "none", idleTimeoutSeconds |-> Null,
               nodeDependencies |-> "deps", pythonRequirementsTxt |-> "reqs"]
    /\ pc = "restore"
    /\ restoredFromMigration = FALSE
    /\ initializationComplete = FALSE
    /\ initializationError = NoError
    /\ startupMarker = FALSE
    /\ migrationHandler = FALSE
    /\ startupLog = <<>>
    /\ exec = Idle
    /\ fs = InitialFs
    /\ lastReq = NoReq
    /\ lastResp = NoResp
    /\ now = 0
    /\ lastActivityAt = 0
    /\ idleTimer = NoTimer
    /\ exit = NoExit
    /\ shellSocket = NoSocket
    /\ readyAt = 0
    /\ ttyd = NoTtyd
    /\ disk = ImageDisk
    /\ pkgs = NoPkgs
    /\ kv \in RestoreStores
    /\ boot = 1
    /\ userWrote = NoWrites
    /\ migrating = NotMigrating
    /\ mcp = NoMcp
    /\ tmpFiles = NoTmpFiles
    /\ runs = NoRuns
    /\ httpRes = NoRes

NextRestore ==
    \/ RestoreMigration
    \/ SetupEnvironment
    \/ RunInitScript
    \/ InitializePersistence
    \/ RegisterMigrationHandler
    \/ MarkComplete
    \/ Listen

SpecRestore == InitRestore /\ [][NextRestore]_vars

(***************************************************************************)
(* executeCode calls side by side: each await of executeCode               *)
(* (part_012:425-544) is a step, so the calls of concurrent requests       *)
(* interleave at the write, at the child's run and at the unlink           *)
(***************************************************************************)
Codes == {"a", "b"}
CodeLanguages == {"js", "py"}

InFlight(run) == run.phase # "done"

\* await fs.writeFile(tempFile, code, 'utf8'); tempFiles.push(tempFile)
\* (part_012:459-470) of a new call for valid code
CodeWrite ==
    /\ Serving
    /\ Len(runs) < MaxCalls
    /\ \E code \in Codes, language \in CodeLanguages, cwdOk \in BOOLEAN,
          uniqueId \in TempIds, outcome \in WriteOutcomes :
        \A tempFile \in {codeTempFile(uniqueId, code, language)} :
           /\ tmpFiles' = writeTempFile(tmpFiles, tempFile, code, Len(runs) + 1, outcome)
           /\ runs' = Append(runs,
                  [code |-> code, language |-> language, cwdOk |-> cwdOk,
                   uniqueId |-> uniqueId, tempFile |-> tempFile,
                   tempFiles |-> cleanedUp(tempFile, outcome),
                   phase |-> IF outcome = "written" THEN "written" ELSE "cleanup",
                   ran |-> "none",
                   result |-> IF outcome = "written" THEN "none" ELSE "write failed",
                   unlinked |-> {}])
    /\ UNCHANGED <<startVars, idleVars, ttyd, migVars, httpRes, mcp, exec, fs,
                   lastReq, lastResp, lastActivityAt>>

\* part_012:472-508  the cwd is validated and the interpreter started
CodeSpawn ==
    /\ \E i \in DOMAIN runs :
        /\ runs[i].phase = "written"
        /\ IF ~runs[i].cwdOk
           THEN runs' = [runs EXCEPT ![i].phase = "cleanup", ![i].result = "rejected cwd"]
           ELSE \E spawned \in BOOLEAN :
                runs' = IF spawned THEN [runs EXCEPT ![i].phase = "running"]
                        ELSE [runs EXCEPT ![i].phase = "cleanup",
                                          ![i].result = "spawn error"]
    /\ UNCHANGED <<startVars, idleVars, ttyd, migVars, httpRes, mcp, tmpFiles, exec, fs,
                   lastReq, lastResp, lastActivityAt>>

\* the interpreter opens the file named on its command line
CodeChildReads ==
    /\ \E i \in DOMAIN runs :
        /\ runs[i].phase = "running"
        /\ runs[i].ran = "none"
        /\ runs' = [runs EXCEPT ![i].ran =
                       IF \E f \in tmpFiles : f.name = runs[i].tempFile
                       THEN (CHOOSE f \in tmpFiles : f.name = runs[i].tempFile).content
                       ELSE "missing"]
    /\ UNCHANGED <<startVars, idleVars, ttyd, migVars, httpRes, mcp, tmpFiles, exec, fs,
                   lastReq, lastResp, lastActivityAt>>

\* the child ends: it exits after running the script, or the timeout kills it
CodeChildEnds ==
    /\ \E i \in DOMAIN runs :
        /\ runs[i].phase = "running"
        /\ \E how \in {"exit 0", "exit 1", "timeout"} :
            /\ how = "exit 0" => runs[i].ran \notin {"none", "missing"}
            /\ how = "exit 1" => runs[i].ran # "none"
            /\ runs' = [runs EXCEPT ![i].phase = "cleanup", ![i].result = how]
    /\ UNCHANGED <<startVars, idleVars, ttyd, migVars, httpRes, mcp, tmpFiles, exec, fs,
                   lastReq, lastResp, lastActivityAt>>

\* part_012:534-543  finally: every file pushed is unlinked, then the result is
\* returned
CodeCleanup ==
    /\ \E i \in DOMAIN runs :
        /\ runs[i].phase = "cleanup"
        /\ tmpFiles' = unlinkAll(tmpFiles, runs[i].tempFiles)
        /\ runs' = [runs EXCEPT ![i].phase = "done",
                                ![i].unlinked = {f.by : f \in {g \in tmpFiles :
                                                     g.name \in runs[i].tempFiles}}]
    /\ UNCHANGED <<startVars, idleVars, ttyd, migVars, httpRes, mcp, exec, fs,
                   lastReq, lastResp, lastActivityAt>>

\* the start from the init script on, then executeCode calls
InitTmp ==
    /\ isLocalMode = FALSE
    /\ input \in [initShellScript : {"none", "script"}, idleTimeoutSeconds : {Num(0)},
                 nodeDependencies : {"none"}, pythonRequirementsTxt : {"none"}]
    /\ pc = "init"
    /\ restoredFromMigration = FALSE
    /\ initializationComplete = FALSE
    /\ initializationError = NoError
    /\ startupMarker = FALSE
    /\ migrationHandler = FALSE
    /\ startupLog = <<>>
    /\ exec = Idle
    /\ fs = InitialFs
    /\ lastReq = NoReq
    /\ lastResp = NoResp
    /\ now = 0
    /\ lastActivityAt = 0
    /\ idleTimer = NoTimer
    /\ exit = NoExit
    /\ shellSocket = NoSocket
    /\ readyAt = 0
    /\ ttyd = NoTtyd
    /\ disk = ImageDisk
    /\ pkgs = NoPkgs
    /\ kv = NoSnapshot
    /\ boot = 1
    /\ userWrote = NoWrites
    /\ migrating = NotMigrating
    /\ mcp = NoMcp
    /\ tmpFiles = NoTmpFiles
    /\ runs = NoRuns
    /\ httpRes = NoRes

NextTmp ==
    \/ RunInitScript
    \/ InitializePersistence
    \/ RegisterMigrationHandler
    \/ MarkComplete
    \/ Listen
    \/ CodeWrite
    \/ CodeSpawn
    \/ CodeChildReads
    \/ CodeChildEnds
    \/ CodeCleanup

SpecTmp == InitTmp /\ [][NextTmp]_vars

(***************************************************************************)
(* The MCP endpoint: the routes for /mcp, the server made for each POST,   *)
(* and the four tools                                                      *)
(***************************************************************************)
MaxMcpServers == 3   \* MCP servers constructed in a run

HttpMethods == {"POST", "GET", "DELETE"}

\* the routes registered for the path /mcp: sandbox main.ts:628, manager
\* main.ts:34, 63 and 77
SandboxMcpRoutes == {"POST"}
ManagerMcpRoutes == {"POST", "GET", "DELETE"}

\* (variant: GET and DELETE are registered on the sandbox service as well)
SandboxMcpRoutesAll == {"POST", "GET", "DELETE"}

\* manager main.ts:63-89  res.writeHead(405).end(JSON.stringify({... -32000 ...}))
methodNotAllowed ==
    [NoResp EXCEPT !.status = 405, !.body = "Method not allowed.", !.code = -32000]

\* express: no route matches, the final handler answers  Cannot GET /mcp
cannotFind == [NoResp EXCEPT !.status = 404, !.body = "Cannot METHOD /mcp"]

\* main.ts:642-654  the catch of the POST handler
internalServerError ==
    [NoResp EXCEPT !.status = 500, !.body = "Internal server error", !.code = -32603]

\* what a service with these routes answers to a request for /mcp that is not
\* a POST
mcpOtherMethod(routes, method) ==
    IF method \in routes THEN methodNotAllowed ELSE cannotFind

McpOp(method) ==
    CASE method = "POST" -> "POST /mcp"
      [] method = "GET" -> "GET /mcp"
      [] method = "DELETE" -> "DELETE /mcp"

\* (variant: one server is made at the first request and used for all)
createMcpServerOnce(m) == IF m.created = 0 THEN 1 ELSE m.handledBy

\* main.ts:630  const mcpServer = createMcpServer(): a new server each time
createMcpServer(m) == m.created + 1

\* a request for /mcp on the sandbox service: a POST is handled by a server
\* and a transport made for it (connect or handleRequest may throw)
McpRequest ==
    /\ Admits
    /\ \E method \in HttpMethods :
        /\ lastReq' = [NoReq EXCEPT !.op = McpOp(method)]
        /\ IF method = "POST" /\ method \in SandboxMcpRoutes
           THEN /\ mcp.created < MaxMcpServers
                /\ \E handled \in BOOLEAN :
                   \A mcpServer \in {createMcpServer(mcp)} :
                     /\ mcp' = [created |-> IF mcpServer > mcp.created
                                           THEN mcpServer ELSE mcp.created,
                                open |-> IF handled THEN mcp.open \cup {mcpServer}
                                         ELSE mcp.open,
                                handledBy |-> mcpServer]
                     /\ lastResp' = IF handled
                                    THEN [NoResp EXCEPT !.status = 200, !.body = "mcp"]
                                    ELSE internalServerError
           ELSE /\ lastResp' = mcpOtherMethod(SandboxMcpRoutes, method)
                /\ UNCHANGED mcp
    /\ activityTracking("/mcp", FALSE)
    /\ UNCHANGED <<startVars, idleVars, ttyd, migVars, httpRes, tmpFiles, runs, exec, fs>>

\* main.ts:637-641  res.on('close'): the transport and the server are closed
McpClosed ==
    /\ \E mcpServer \in mcp.open : mcp' = [mcp EXCEPT !.open = @ \ {mcpServer}]
    /\ UNCHANGED <<startVars, idleVars, ttyd, migVars, httpRes, tmpFiles, runs, exec, fs,
                   lastReq, lastResp, lastActivityAt>>

\* the execute tool called with a command (the schema requires the string)
McpExecute ==
    ExecRequestVia("mcp execute",
                   {Given(<<>>), Given(<<"l", "s">>)},
                   {Absent, Given(<<>>), Given(<<"P", "y">>), Given(<<"s", "h">>),
                    Given(<<"s", "h", "e", "l", "l">>), Given(<<"r", "u", "b", "y">>)},
                   {<<>>, <<"n", "o">>, <<".", ".", "/", "e", "t", "c">>},
                   TimeoutSecs, {FALSE})

McpToolPaths ==
    {<<>>, JoinSegs(<<SegD>>), JoinSegs(<<SegD, SegF>>),
     JoinSegs(<<DotDot, SegEtc, SegPasswd>>)}

McpWriteTool ==
    /\ Admits
    /\ \E p \in McpToolPaths :
        FsRespond([NoReq EXCEPT !.op = "mcp write-file", !.path = p,
                                !.content = Body(<<1>>)],
                  toolWriteFile(fs, p, <<1>>))

McpReadTool ==
    /\ Admits
    /\ \E p \in McpToolPaths :
        FsRespond([NoReq EXCEPT !.op = "mcp read-file", !.path = p], toolReadFile(fs, p))

McpListTool == McpListFilesOn(McpToolPaths)

NextMcp ==
    \/ McpRequest
    \/ McpClosed
    \/ McpExecute
    \/ ChildStdout
    \/ ChildStderr
    \/ Tick
    \/ TimeoutKill
    \/ ChildExit
    \/ ChildKilled
    \/ McpWriteTool
    \/ McpReadTool
    \/ McpListTool
    \/ ResponseSent

SpecMcp == InitFs /\ [][NextMcp]_vars

(***************************************************************************)
(* One process from its first line to its end: startup, requests, the idle *)
(* check and the 'migrating' event                                         *)
(***************************************************************************)
InitReady ==
    /\ isLocalMode \in BOOLEAN
    /\ input \in [initShellScript : {"none", "script"},
                 idleTimeoutSeconds : {Num(CheckIntervalMs \div MsPerSec)},
                 nodeDependencies : {"deps"}, pythonRequirementsTxt : {"reqs"}]
    /\ pc = "restore"
    /\ restoredFromMigration = FALSE
    /\ initializationComplete = FALSE
    /\ initializationError = NoError
    /\ startupMarker = FALSE
    /\ migrationHandler = FALSE
    /\ startupLog = <<>>
    /\ exec = Idle
    /\ fs = InitialFs
    /\ lastReq = NoReq
    /\ lastResp = NoResp
    /\ now = 0
    /\ lastActivityAt = 0
    /\ idleTimer = NoTimer
    /\ exit = NoExit
    /\ shellSocket = NoSocket
    /\ readyAt = 0
    /\ ttyd = NoTtyd
    /\ disk = ImageDisk
    /\ pkgs = NoPkgs
    /\ kv \in {NoSnapshot, EmptySnapshot}
    /\ boot = 1
    /\ userWrote = NoWrites
    /\ migrating = NotMigrating
    /\ mcp = NoMcp
    /\ tmpFiles = NoTmpFiles
    /\ runs = NoRuns
    /\ httpRes = NoRes

NextReady ==
    \/ RestoreMigrationDownloaded
    \/ SetupEnvironment
    \/ RunInitScript
    \/ InitializePersistence
    \/ RegisterMigrationHandler
    \/ MarkComplete
    \/ Listen
    \/ ClockAdvance
    \/ IdleCheck
    \/ HealthRequest
    \/ McpListRoot
    \/ ResponseSent
    \/ Migrating

SpecReady == InitReady /\ [][NextReady]_vars

(***************************************************************************)
(* The response object of the handlers that write it from callbacks: the   *)
(* /shell proxy, POST /mcp and the ZIP download. heads counts the times a   *)
(* status line and headers were written or attempted                        *)
(***************************************************************************)
\* res.writeHead / res.status(..).send / the first chunk piped into res
writeHead(r) == [r EXCEPT !.headersSent = TRUE, !.heads = @ + 1]

\* (variant: the error response is written without looking at headersSent)
sendErrorAlways(r) == [writeHead(r) EXCEPT !.ended = TRUE]

\* main.ts:776-779 and 644-653  if (!res.headersSent) res.status(500)...
sendError(r) == IF ~r.headersSent THEN [writeHead(r) EXCEPT !.ended = TRUE] ELSE r

\* the handlers' other variables
resFrame == <<startVars, idleVars, ttyd, migVars, mcp, tmpFiles, runs, exec, fs,
              lastReq, lastResp>>

\* main.ts:755-784  app.all('/shell*'): http.request to ttyd, req piped into it
ShellProxyRequest ==
    /\ Serving
    /\ httpRes = NoRes
    /\ httpRes' = [NoRes EXCEPT !.kind = "shell", !.upstream = "pending"]
    /\ activityTracking("/shell", FALSE)
    /\ UNCHANGED resFrame

\* main.ts:768-773  the callback of http.request: res.writeHead, proxyRes.pipe(res)
ShellProxyResponse ==
    /\ httpRes.kind = "shell"
    /\ httpRes.upstream = "pending"
    /\ httpRes' = [writeHead(httpRes) EXCEPT !.upstream = "streaming"]
    /\ UNCHANGED <<resFrame, lastActivityAt>>

\* main.ts:775-780  proxyReq.on('error'): before ttyd answered (refused
\* connection) or while its answer is piped (reset connection)
ShellProxyError ==
    /\ httpRes.kind = "shell"
    /\ httpRes.upstream \in {"pending", "streaming"}
    /\ httpRes' = [sendError(httpRes) EXCEPT !.upstream = "failed"]
    /\ UNCHANGED <<resFrame, lastActivityAt>>

\* proxyRes ends: pipe ends res
ShellProxyEnd ==
    /\ httpRes.kind = "shell"
    /\ httpRes.upstream = "streaming"
    /\ httpRes' = [httpRes EXCEPT !.upstream = "done", !.ended = TRUE]
    /\ UNCHANGED <<resFrame, lastActivityAt>>

\* main.ts:628-655  POST /mcp seen at res: the transport writes the answer, or
\* connect / handleRequest throws before or after the headers went out, and
\* the catch answers 500 unless they did
McpResponse ==
    /\ Serving
    /\ httpRes = NoRes
    /\ \E outcome \in {"answered", "threw", "threw after headers"} :
          httpRes' =
            IF outcome = "answered"
            THEN [writeHead([NoRes EXCEPT !.kind = "mcp"]) EXCEPT !.ended = TRUE,
                                                                 !.upstream = "done"]
            ELSE IF outcome = "threw"
            THEN [sendError([NoRes EXCEPT !.kind = "mcp"]) EXCEPT !.upstream = "failed"]
            ELSE [sendError(writeHead([NoRes EXCEPT !.kind = "mcp"]))
                    EXCEPT !.upstream = "failed"]
    /\ activityTracking("/mcp", FALSE)
    /\ UNCHANGED resFrame

\* main.ts:361-378  GET /fs/<dir>?download=1: createZipArchive failed, or
\* setHeader threw (caught at main.ts:421-425): one 500; otherwise the archive
\* is piped into res, which has sent nothing yet
FsZipRequest ==
    /\ Serving
    /\ httpRes = NoRes
    /\ \E outcome \in {"failed", "piped"} :
          httpRes' =
            IF outcome = "failed"
            THEN [writeHead([NoRes EXCEPT !.kind = "zip"]) EXCEPT !.ended = TRUE,
                                                                 !.upstream = "failed"]
            ELSE [NoRes EXCEPT !.kind = "zip", !.upstream = "streaming"]
    /\ activityTracking("/fs", FALSE)
    /\ UNCHANGED resFrame

\* the archive emits data: pipe writes it to res, the first chunk with the
\* headers
ZipStreamData ==
    /\ httpRes.kind = "zip"
    /\ httpRes.upstream = "streaming"
    /\ ~httpRes.headersSent
    /\ httpRes' = writeHead(httpRes)
    /\ UNCHANGED <<resFrame, lastActivityAt>>

\* part_012:909-912  archive.on('error'): the listener logs and throws; the
\* handler has returned long ago, so its catch does not see the error and
\* nothing is written to res
ZipStreamError ==
    /\ httpRes.kind = "zip"
    /\ httpRes.upstream = "streaming"
    /\ httpRes' = [httpRes EXCEPT !.upstream = "failed"]
    /\ UNCHANGED <<resFrame, lastActivityAt>>

\* the archive ends: pipe ends res (an empty archive's headers go out now)
ZipStreamEnd ==
    /\ httpRes.kind = "zip"
    /\ httpRes.upstream = "streaming"
    /\ httpRes' = [(IF httpRes.headersSent THEN httpRes ELSE writeHead(httpRes))
                     EXCEPT !.upstream = "done", !.ended = TRUE]
    /\ UNCHANGED <<resFrame, lastActivityAt>>

\* the connection of the request is closed: the next request gets a new res
ConnectionClosed ==
    /\ httpRes.upstream \in {"done", "failed"}
    /\ httpRes' = NoRes
    /\ UNCHANGED <<resFrame, lastActivityAt>>

NextResponse ==
    \/ ShellProxyRequest
    \/ ShellProxyResponse
    \/ ShellProxyError
    \/ ShellProxyEnd
    \/ McpResponse
    \/ FsZipRequest
    \/ ZipStreamData
    \/ ZipStreamError
    \/ ZipStreamEnd
    \/ ConnectionClosed
    \/ McpRequest
    \/ McpClosed
    \/ HealthRequest
    \/ ResponseSent

SpecResponse == InitFs /\ [][NextResponse]_vars

(***************************************************************************)
(* Startup for every kind of dependency input, and /health                 *)
(***************************************************************************)
InitSetup ==
    /\ isLocalMode \in BOOLEAN
    /\ input \in [initShellScript : {"none", "script"}, idleTimeoutSeconds : {Null},
                 nodeDependencies : NodeDependencies,
                 pythonRequirementsTxt : PythonRequirements]
    /\ pc = "restore"
    /\ restoredFromMigration = FALSE
    /\ initializationComplete = FALSE
    /\ initializationError = NoError
    /\ startupMarker = FALSE
    /\ migrationHandler = FALSE
    /\ startupLog = <<>>
    /\ exec = Idle
    /\ fs = InitialFs
    /\ lastReq = NoReq
    /\ lastResp = NoResp
    /\ now = 0
    /\ lastActivityAt = 0
    /\ idleTimer = NoTimer
    /\ exit = NoExit
    /\ shellSocket = NoSocket
    /\ readyAt = 0
    /\ ttyd = NoTtyd
    /\ disk = ImageDisk
    /\ pkgs = NoPkgs
    /\ kv \in {NoSnapshot, EmptySnapshot}
    /\ boot = 1
    /\ userWrote = NoWrites
    /\ migrating = NotMigrating
    /\ mcp = NoMcp
    /\ tmpFiles = NoTmpFiles
    /\ runs = NoRuns
    /\ httpRes = NoRes

NextSetup ==
    \/ RestoreMigration
    \/ SetupEnvironment
    \/ RunInitScript
    \/ InitializePersistence
    \/ RegisterMigrationHandler
    \/ MarkComplete
    \/ Listen
    \/ HealthRequest
    \/ ResponseSent

SpecSetup == InitSetup /\ [][NextSetup]_vars

(***************************************************************************)
(* Local and production mode side by side: startup, then /health, /exec    *)
(* and /fs requests                                                        *)
(***************************************************************************)
LocalPaths == {<<"d", "/", "f">>, <<"d">>}

PutLocal == FsPutOn(LocalPaths, {NoBody, Body(<<1>>)})
GetLocal == FsGetOn(LocalPaths)
ExecLocal ==
    ExecRequestOn({Absent, Given(<<"l", "s">>)}, {Absent, Given(<<"p", "y">>)},
                  {<<>>, <<"d">>}, {0}, {FALSE})

NextLocal ==
    \/ RestoreMigration
    \/ SetupEnvironment
    \/ RunInitScript
    \/ InitializePersistence
    \/ RegisterMigrationHandler
    \/ MarkComplete
    \/ Listen
    \/ HealthRequest
    \/ PutLocal
    \/ GetLocal
    \/ ExecLocal
    \/ ChildExit
    \/ ResponseSent

SpecLocal == InitShell /\ [][NextLocal]_vars

(***************************************************************************)
(* Properties                                                              *)
(***************************************************************************)
\* a location is inside the sandbox root R = /sandbox
Inside(loc) == IsPrefixLoc(SandboxLoc, loc)

\* the location a path names when '..' is resolved against the path itself
LexicalLoc(p) == RealSegs(Split(normalize(resolveAgainstSandbox(p))))

FsOps == {"GET /fs", "HEAD /fs", "PUT /fs", "POST /fs", "DELETE /fs"}
McpFileOps == {"mcp write-file", "mcp read-file", "mcp list-files"}

\* the request read or changed something outside R
TouchedOutside == \E q \in lastResp.read \cup lastResp.touched : ~Inside(q)

\* the /fs request was refused
FsFailed == lastResp.status >= 400

\* the request asks to run js / ts / py code
AsksForCode ==
    /\ lastReq.op = "POST /exec"
    /\ Provided(lastReq.command)
    /\ Provided(lastReq.language)
    /\ toLowerCase(lastReq.language.text) \in
           {<<"j", "s">>, <<"j", "a", "v", "a", "s", "c", "r", "i", "p", "t">>,
            <<"t", "s">>, <<"t", "y", "p", "e", "s", "c", "r", "i", "p", "t">>,
            <<"p", "y">>, <<"p", "y", "t", "h", "o", "n">>}

\* C1 (path confinement): a /fs request (GET, HEAD, PUT, POST mkdir, POST
\* append, DELETE) whose path names a location outside R = /sandbox, a sibling
\* such as /sandbox2/x included, fails and neither reads nor changes anything
\* outside R; code asked to run with such a working directory is not run and its
\* result has a non-zero exitCode.
C1_PathConfinement ==
    /\ (lastReq.op \in FsOps /\ ~Inside(LexicalLoc(lastReq.path)))
           => (FsFailed /\ ~TouchedOutside)
    /\ (AsksForCode /\ lastReq.cwd # <<>> /\ ~Inside(LexicalLoc(lastReq.cwd)))
           => /\ exec.phase = "idle"
              /\ lastResp # NoResp => (~lastResp.child.spawned
                                       /\ NonZero(lastResp.result.exitCode))

\* C2 (symlink escape): a /fs request whose path lies in R as written but leads
\* through a symbolic link to a location outside R fails and neither reads nor
\* changes anything outside R; this holds for reads (stat, read, list, zip,
\* delete) and for writes (PUT, POST append, POST mkdir), also when the file to
\* be written does not exist yet.
C2_SymlinkEscape ==
    (lastReq.op \in FsOps /\ Inside(LexicalLoc(lastReq.path)) /\ ~Inside(lastReq.real))
        => (FsFailed /\ ~TouchedOutside)

\* C3 (MCP file tools): write-file, read-file and list-files called with a path
\* that leads outside R (such as /etc/passwd) return isError = true and neither
\* read, list nor write anything outside R.
C3_McpToolsConfined ==
    (lastReq.op \in McpFileOps /\ ~Inside(lastReq.real))
        => (lastResp.isError /\ ~TouchedOutside)

\* the values main.ts gives initializationError
ReadinessErrors ==
    {NoError} \cup {InitScriptFailure(InitScriptExitCode(err)) : err \in InitScriptErrors}

HealthGate(resp, complete, error) ==
    /\ (resp.status = 200 \/ resp.body = "healthy") => (complete /\ error = NoError)
    /\ ~complete => (resp.status = 503 /\ resp.body = "initializing")
    /\ (complete /\ error # NoError) => (resp.status = 503 /\ resp.body = "unhealthy")

\* C4 (health gate): a response to GET /health is 200 'healthy' only if
\* initialization is complete and no error is recorded, 503 'initializing'
\* whenever it is not complete, and 503 'unhealthy' whenever it is complete and an
\* error is recorded. The handler is checked for every value of the two readiness
\* variables, and every response sent against the variables of the state.
C4_HealthGate ==
    /\ \A complete \in BOOLEAN, error \in ReadinessErrors :
           HealthGate(HealthResponse(complete, error), complete, error)
    /\ lastReq.op = "GET /health" =>
           /\ lastResp.status \in {200, 503}
           /\ HealthGate(lastResp, initializationComplete, initializationError)

C4_Witness ==
    /\ lastReq.op = "GET /health"
    /\ initializationError # NoError
    /\ lastResp.status = 503
    /\ lastResp.body = "unhealthy"

\* the startup events of a kind, by their place in startupLog
Has(kind) == \E i \in DOMAIN startupLog : startupLog[i][1] = kind
Idx(kind) == CHOOSE i \in DOMAIN startupLog : startupLog[i][1] = kind
Before(a, b) == Has(a) /\ Has(b) /\ Idx(a) < Idx(b)

\* the init script was run and ended with a non-zero exit code or was killed at
\* its timeout
InitScriptFailed == \E i \in DOMAIN startupLog : startupLog[i] = <<"initScript", "failed">>

\* C5 (init-script failure does not block startup): once the init script has
\* exited non-zero or timed out, the readiness error is set, startup goes on to
\* mark initialization complete, every later response of /health is 503
\* 'unhealthy', and the other endpoints go on serving: /exec and /health take
\* requests up, and the listings of the sandbox root by /fs and by the MCP tool
\* succeed.
C5_InitScriptFailure ==
    InitScriptFailed =>
        /\ initializationError # NoError
        /\ pc # "crashed"
        /\ pc = "complete" => ENABLED MarkComplete
        /\ pc \in {"listen", "serving"} => initializationComplete
        /\ lastReq.op = "GET /health" =>
               (lastResp.status = 503 /\ lastResp.body = "unhealthy")
        /\ Admits => (ENABLED ExecRequest /\ ENABLED HealthRequest)
        /\ lastReq.op = "GET /fs" => lastResp.status = 200
        /\ lastReq.op = "mcp list-files" => ~lastResp.isError

C5_Witness ==
    /\ InitScriptFailed
    /\ initializationComplete
    /\ lastReq.op = "POST /exec"
    /\ lastResp.status = 200

StartupSteps == {"restore", "install", "setup", "initScript"}

\* C6 (startup ordering): restore is attempted before the environment is
\* installed; the installation runs if and only if restore returned false; the
\* init script runs after restore and installation; initialization is marked
\* complete only after all of these; requests are admitted only after restore
\* has finished.
C6_StartupOrdering ==
    /\ Has("install") =>
           (Before("restore", "install") /\ startupLog[Idx("restore")][2] = "false")
    /\ (Has("restore") /\ startupLog[Idx("restore")][2] = "false"
            /\ pc \notin {"restore", "setup"}) => Has("install")
    /\ Has("initScript") =>
           /\ ~isLocalMode => Before("restore", "initScript")
           /\ Has("install") => Before("install", "initScript")
           /\ ~Has("install") => (isLocalMode \/ restoredFromMigration)
    /\ initializationComplete =>
           /\ Has("complete")
           /\ pc \in {"listen", "serving"}
           /\ ~isLocalMode => Has("restore")
           /\ (HasInitScript /\ ~isLocalMode) => Has("initScript")
           /\ \A i \in DOMAIN startupLog :
                  startupLog[i][1] \in StartupSteps => i < Idx("complete")
    /\ (lastReq # NoReq \/ exec # Idle) =>
           /\ Has("listen")
           /\ ~isLocalMode => Before("restore", "listen")
           /\ initializationComplete

C6_Witness ==
    /\ restoredFromMigration
    /\ Has("initScript")
    /\ ~Has("install")
    /\ lastResp # NoResp

\* the names of a language the endpoint documents (any letter case)
RecognisedNames ==
    {<<"j", "s">>, <<"j", "a", "v", "a", "s", "c", "r", "i", "p", "t">>,
     <<"t", "s">>, <<"t", "y", "p", "e", "s", "c", "r", "i", "p", "t">>,
     <<"p", "y">>, <<"p", "y", "t", "h", "o", "n">>,
     <<"b", "a", "s", "h">>, <<"s", "h">>}

\* the request fails validation: no command, or a language that is no such name
\* (a language given as '' counts as omitted)
CommandMissing == ~lastReq.command.present \/ lastReq.command.text = <<>>
LanguageUnknown ==
    /\ lastReq.language.present
    /\ lastReq.language.text # <<>>
    /\ [i \in 1..Len(lastReq.language.text) |-> LowerChar(lastReq.language.text[i])]
           \notin RecognisedNames

\* C7 (POST /exec status mapping): 400 when command is missing or empty, 400 when
\* language is given and is not a recognised name, and no child process is
\* spawned for either; otherwise the result is sent with 500 when its exitCode
\* is non-zero and with 200 exactly when its exitCode is 0.
C7_ExecStatus ==
    lastReq.op = "POST /exec" =>
        IF CommandMissing \/ LanguageUnknown
        THEN /\ exec = Idle
             /\ lastResp.status = 400
             /\ lastResp.child = NoChild
        ELSE lastResp # NoResp =>
             /\ lastResp.body = "result"
             /\ lastResp.status \in {200, 500}
             /\ lastResp.status = 200 <=> lastResp.result.exitCode = Num(0)
             /\ lastResp.status = 500 <=> lastResp.result.exitCode # Num(0)

C7_Witness ==
    /\ lastReq.op = "POST /exec"
    /\ lastResp.status = 500
    /\ lastResp.child.spawned
    /\ lastResp.result.exitCode = Num(MaxExitCode)

\* the language the response is to name
ExpectedLanguage ==
    LET lower == [i \in 1..Len(lastReq.language.text) |->
                      LowerChar(lastReq.language.text[i])]
    IN  IF ~lastReq.language.present \/ lastReq.language.text = <<>> THEN "shell"
        ELSE IF lower \in {<<"b", "a", "s", "h">>, <<"s", "h">>} THEN "shell"
        ELSE IF lower \in {<<"j", "s">>, <<"j", "a", "v", "a", "s", "c", "r", "i", "p", "t">>}
             THEN "js"
        ELSE IF lower \in {<<"t", "s">>, <<"t", "y", "p", "e", "s", "c", "r", "i", "p", "t">>}
             THEN "ts"
        ELSE "py"

\* C8 (response language): for every /exec request that passes validation the
\* language of the response is the normalized language: 'shell' when omitted or
\* bash / sh, 'js' for js / javascript, 'ts' for ts / typescript, 'py' for py /
\* python, in any letter case, whether the execution succeeds, fails or times out.
C8_ResponseLanguage ==
    (lastReq.op = "POST /exec" /\ ~CommandMissing /\ ~LanguageUnknown /\ lastResp # NoResp)
        => lastResp.result.language = ExpectedLanguage

C8_Witness ==
    /\ lastReq.op = "POST /exec"
    /\ lastReq.language = Given(<<"P", "Y", "T", "H", "O", "N">>)
    /\ lastResp.child.timedOut
    /\ lastResp.result.language = "py"

TimeoutIndicated(stderr) == \E i \in DOMAIN stderr : stderr[i] = "timed out"

\* C10 (timeout handling): when the child runs beyond the timeout of the request
\* it is killed, and the result has a non-zero exitCode and a stderr that says a
\* timeout occurred, for shell commands and for js / ts / py code.
C10_Timeout ==
    (lastReq.op = "POST /exec" /\ lastResp.child.timedOut) =>
        /\ lastResp.child.ended = "signal"
        /\ NonZero(lastResp.result.exitCode)
        /\ TimeoutIndicated(lastResp.result.stderr)

\* C11 (write/read round trip): when PUT /fs/p with a non-empty body b has been
\* answered 200, the reported size is |b| and a GET /fs/p made next is answered 200
\* with exactly the bytes b, whatever the file held before
PutSucceeded == lastReq.op = "PUT /fs" /\ lastResp.status = 200

C11_RoundTrip ==
    PutSucceeded =>
        LET b == lastReq.content.data
            got == handleGet(fs, lastReq.path, FALSE).resp
        IN  /\ lastResp.data = <<Len(b)>>
            /\ got.status = 200
            /\ got.body = "file"
            /\ got.data = b

\* the same for paths that reach their file without crossing a symbolic link out
\* of the sandbox
C11_RoundTripInside ==
    (PutSucceeded /\ Inside(lastReq.real)) =>
        LET b == lastReq.content.data
            got == handleGet(fs, lastReq.path, FALSE).resp
        IN  /\ lastResp.data = <<Len(b)>>
            /\ got.status = 200
            /\ got.body = "file"
            /\ got.data = b

\* a request has just been taken up and answered
Handled(op) == lastReq = NoReq /\ lastReq'.op = op /\ lastResp' # NoResp

\* C12 (DELETE semantics): for a DELETE /fs/p whose path leads to a place inside
\* the sandbox, a file is unlinked (200), an empty directory is removed (200), a
\* non-empty directory without recursive=1 is answered 409 DIRECTORY_NOT_EMPTY and
\* nothing changes, with recursive=1 it is removed with all its contents (200), and
\* a path that does not exist is answered 500 and nothing changes
DeleteExpected(f, l, recursive) ==
    IF l.st # "exists" THEN [status |-> 500, body |-> "error", fs |-> f]
    ELSE IF f[l.at].kind = "dir" /\ Children(f, l.at) # {} /\ ~recursive
    THEN [status |-> 409, body |-> "DIRECTORY_NOT_EMPTY", fs |-> f]
    ELSE [status |-> 200, body |-> "deleted",
          fs |-> [q \in {r \in DOMAIN f : ~IsPrefixLoc(l.at, r)} |-> f[q]]]

DenotesRoot(p) == IsRootPath(p) \/ LexicalLoc(p) = SandboxLoc

RootIntact == SandboxLoc \in DOMAIN fs /\ fs[SandboxLoc].kind = "dir"

C13_RootProtected ==
    /\ RootIntact
    /\ (lastReq.op \in {"PUT /fs", "POST /fs", "DELETE /fs"} /\ DenotesRoot(lastReq.path))
         => lastResp.status = 400

\* what holds of the code: the two spellings the handlers compare with are refused
C13_EmptyAndSlashRefused ==
    (lastReq.op \in {"PUT /fs", "POST /fs", "DELETE /fs"} /\ IsRootPath(lastReq.path))
        => lastResp.status = 400 /\ lastResp.touched = {}

\* C14 (mkdir is idempotent): POST /fs/p?mkdir=1 for a path p in the sandbox is
\* answered 201 'directory' when p does not exist, and p and its missing parents
\* are directories afterwards; it is answered 201 'directory' when p is a
\* directory, and then nothing changes; and the same call made again right after
\* gets the same answer and changes nothing
MkdirStep ==
    /\ Handled("POST /fs")
    /\ lastReq'.flag
    /\ ~lastReq'.append
    /\ ~IsRootPath(lastReq'.path)
    /\ Inside(LexicalLoc(lastReq'.path))

MkdirOutcome(isDir, target, again) ==
    /\ lastResp'.status = 201
    /\ lastResp'.body = "directory"
    /\ isDir => fs' = fs
    /\ target \in DOMAIN fs' /\ fs'[target].kind = "dir"
    /\ \A q \in DOMAIN fs : q \in DOMAIN fs' /\ fs'[q] = fs[q]
    /\ \A q \in DOMAIN fs' \ DOMAIN fs : IsPrefixLoc(q, target) /\ fs'[q].kind = "dir"
    /\ again.resp.status = 201
    /\ again.resp.body = "directory"
    /\ again.fs = fs'

C14_MkdirIdempotent ==
    [][MkdirStep =>
        \A l \in {Locate(fs, normalize(resolveAgainstSandbox(lastReq'.path)))} :
          \A isDir \in {l.st = "exists" /\ fs[l.at].kind = "dir"} :
            (isDir \/ l.st = "missing") =>
              \A target \in {l.at \o l.tail},
                 again \in {handlePost(fs', lastReq'.path, TRUE, FALSE, lastReq'.content)} :
                MkdirOutcome(isDir, target, again)]_vars

\* a mkdir on a directory that existed already
C14_Witness ==
    /\ lastReq.op = "POST /fs"
    /\ lastReq.flag
    /\ lastResp.status = 201
    /\ lastResp.touched = {}
    /\ ~DenotesRoot(lastReq.path)

\* C15 (POST /fs validation): a POST on the root, with neither mkdir=1 nor
\* append=1, with both, or with append=1 and no body is answered 400, and no
\* directory is created and no file is created or changed
WithoutBody(content) == content \in {NoBody, EmptyObject}

C15_PostValidation ==
    (/\ lastReq.op = "POST /fs"
     /\ \/ IsRootPath(lastReq.path)
        \/ ~lastReq.flag /\ ~lastReq.append
        \/ lastReq.flag /\ lastReq.append
        \/ lastReq.append /\ WithoutBody(lastReq.content))
        => lastResp.status = 400 /\ lastResp.touched = {}

\* what holds of the code: the root and the two misuses of the query flags
C15_FlagsValidated ==
    (/\ lastReq.op = "POST /fs"
     /\ \/ IsRootPath(lastReq.path)
        \/ ~lastReq.flag /\ ~lastReq.append
        \/ lastReq.flag /\ lastReq.append)
        => lastResp.status = 400 /\ lastResp.touched = {}

\* a well-formed write-type request (one that passes the checks of the root path,
\* the query flags and the body) and a read-type request
WriteRequest ==
    /\ ~IsRootPath(lastReq.path)
    /\ \/ lastReq.op = "PUT /fs" /\ lastReq.content.present
       \/ lastReq.op = "POST /fs" /\ lastReq.flag /\ ~lastReq.append
       \/ lastReq.op = "POST /fs" /\ ~lastReq.flag /\ lastReq.append
                                  /\ lastReq.content.present
       \/ lastReq.op = "DELETE /fs"

ReadRequest == lastReq.op \in {"GET /fs", "HEAD /fs"}

\* the path of the request leaves R: as written, or through a symbolic link
Escapes == ~Inside(LexicalLoc(lastReq.path)) \/ ~Inside(lastReq.real)

RefusedAsWritten ==
    ~startsWith(normalize(resolveAgainstSandbox(lastReq.path)), SANDBOX_DIR)

RefusedAsResolved == ~startsWith(ToStr(lastReq.real), SANDBOX_DIR)

Received == lastReq = NoReq /\ lastReq' # NoReq

C17_ActivityFilter ==
    [][Received =>
        lastActivityAt' = IF lastReq'.op = "GET /health" \/ lastReq'.probe
                          THEN lastActivityAt ELSE now]_vars

\* a probe of /exec was received some time after the last activity
C17_Witness ==
    /\ lastReq.op = "POST /exec"
    /\ lastReq.probe
    /\ lastActivityAt < now

\* the last activity: a non-probe request, the end of initialization, or a byte
\* on the terminal socket, in either direction
Later(a, b) == IF a >= b THEN a ELSE b

LastActivity == Later(lastActivityAt, shellSocket.lastByteAt)

\* C18 (idle shutdown happens): with idleTimeoutSeconds = S > 0, once the service
\* listens the exit is triggered no later than one check interval (30 s) after the
\* deadline, last activity + S: the clock never passes that point without it
C18_IdleShutdown ==
    (Serving /\ idleTimeoutSecs(input) > 0 /\ ~exit.triggered)
        => now <= LastActivity + idleTimeoutSecs(input) * MsPerSec + CheckIntervalMs

\* the exit came a full check interval after the deadline
C18_Witness ==
    /\ exit.triggered
    /\ idleTimeoutSecs(input) > 0
    /\ exit.at = lastActivityAt + idleTimeoutSecs(input) * MsPerSec + CheckIntervalMs

\* C19 (idle shutdown only when due): an idle exit is triggered only by a check
\* at which idleTimeoutSeconds > 0 and now - lastActivityAt is strictly more than
\* idleTimeoutSeconds * 1000; with idleTimeoutSeconds <= 0 there is no check and
\* no exit; and no exit comes earlier than idleTimeoutSeconds after readiness
C19_IdleExitOnlyWhenDue ==
    /\ exit.triggered =>
            /\ idleTimeoutSecs(input) > 0
            /\ exit.idleTimeMs > idleTimeoutSecs(input) * MsPerSec
            /\ exit.at - exit.idleTimeMs = lastActivityAt
            /\ initializationComplete
            /\ exit.at >= readyAt + idleTimeoutSecs(input) * MsPerSec
    /\ idleTimeoutSecs(input) <= 0 => ~idleTimer.set /\ ~exit.triggered
    /\ lastActivityAt <= now
    /\ initializationComplete => lastActivityAt >= readyAt

\* an exit at a check after a start that took longer than the idle timeout
C19_Witness ==
    /\ exit.triggered
    /\ readyAt > idleTimeoutSecs(input) * MsPerSec

ByteFrom(side) ==
    shellSocket.open /\ shellSocket' # shellSocket /\ shellSocket'.lastFrom = side

C21_SupervisionNeverStops ==
    (pc = "serving" /\ ~isLocalMode /\ ~exit.triggered)
        => ttyd.state \in {"spawned", "waiting"}

\* C21 (amended): every 'exit' of the PTY server child, whatever its code, sets
\* the respawn for exactly 5 seconds later, however many exits came before, and
\* the respawn happens at that time; only a child that could not be started is
\* not replaced.
C21_RespawnAfterExit ==
    /\ ttyd.state = "waiting"
            => /\ ttyd.respawnAt = ttyd.exitedAt + RespawnDelayMs
               /\ now <= ttyd.respawnAt
    /\ (ttyd.state \in {"spawned", "failed"} /\ ttyd.exits > 0)
            => ttyd.spawnedAt = ttyd.exitedAt + RespawnDelayMs
    /\ (pc = "serving" /\ ~isLocalMode) => ttyd.state # "none"

C21_Witness ==
    /\ ttyd.state = "spawned"
    /\ ttyd.exits >= 2
    /\ ttyd.code = Null

\* what startup has done so far is nothing that local mode is to skip
LocalStartupSkips ==
    /\ ~restoredFromMigration
    /\ ~startupMarker
    /\ ~migrationHandler
    /\ ttyd = NoTtyd
    /\ disk = ImageDisk
    /\ pkgs = NoPkgs
    /\ kv = NoSnapshot
    /\ boot = 1
    /\ userWrote = NoWrites
    /\ migrating = NotMigrating
    /\ mcp = NoMcp
    /\ tmpFiles = NoTmpFiles
    /\ runs = NoRuns
    /\ httpRes = NoRes
    /\ \A i \in 1..Len(startupLog) :
           /\ startupLog[i][1] \notin {"restore", "install"}
           /\ startupLog[i][1] = "initScript" => startupLog[i][2] = "skipped"
    /\ initializationError = NoError
    /\ pc # "crashed"
    /\ lastReq.op = "GET /health" => (lastResp.status = 200 /\ lastResp.body = "healthy")

\* a request taken up in this step is answered, and changes the files, as the
\* handlers do from the request and the files alone
AnsweredAsInProduction ==
    lastReq = NoReq =>
        /\ lastReq'.op = "PUT /fs" =>
               \A a \in {handlePut(fs, lastReq'.path, lastReq'.content)} :
                   /\ lastResp'.status = a.resp.status
                   /\ fs' = a.fs
        /\ lastReq'.op = "GET /fs" =>
               \A a \in {handleGet(fs, lastReq'.path, lastReq'.flag)} :
                   /\ lastResp'.status = a.resp.status
                   /\ lastResp'.data = a.resp.data
                   /\ fs' = fs
        /\ (lastReq'.op = "POST /exec" /\ lastReq'.command.present) =>
               \A sp \in {IF lastReq'.language.present
                           THEN spawnIn(fs, executeCodeStart(lastReq'.command.text, "py",
                                                             lastReq'.cwd).dir)
                           ELSE spawnIn(fs, runCommandCwd(lastReq'.cwd))} :
                   /\ lastReq'.real = sp.at
                   /\ exec'.phase = "running" <=> sp.ok
                   /\ ~sp.ok => lastResp'.status = 500
                   /\ fs' = fs

PastRestore == pc \notin {"restore", "migrated"}

\* the file the user last wrote to path is on the disk, content and permissions
Kept(path) ==
    /\ disk[path].exists
    /\ disk[path].data = userWrote.files[path].data
    /\ disk[path].mode = userWrote.files[path].mode

C24_RepeatedMigration ==
    /\ startupMarker => (~isLocalMode /\ ~restoredFromMigration)
    /\ (boot = 3 /\ PastRestore /\ kv.manifest.present /\ kv.manifest.createdAt = 1) =>
           \A path \in MigPaths :
               (/\ userWrote.files[path].exists
                /\ userWrote.files[path].mtime >= 1
                /\ ~filteredOut(path)) => Kept(path)

\* C25 (environment installation is never fatal): whatever the preparation of
\* the workspaces, the creation of the Python venv and each installation come
\* to, setupExecutionEnvironment returns a result and does not throw, failures
\* only make success false, and startup goes on to the init script and to
\* marking initialization complete.
C25_SetupNeverFatal ==
    /\ \A inp \in [nodeDependencies : NodeDependencies,
                    pythonRequirementsTxt : PythonRequirements], o \in SetupOutcomes :
           /\ ~setupExecutionEnvironment(inp, o).threw
           /\ (o.nodeInit /\ o.pythonInit /\ o.npm /\ o.pip)
                  => setupExecutionEnvironment(inp, o).success
    /\ pc # "crashed"
    /\ \A i \in 1..Len(startupLog) : startupLog[i] # <<"install", "throw">>

\* the setup throws only when requirements are given and the venv cannot be
\* prepared; with no requirement to install every failure is reported in the
\* result
C25_ThrowsOnlyBeforePip ==
    /\ \A inp \in [nodeDependencies : NodeDependencies,
                    pythonRequirementsTxt : PythonRequirements], o \in SetupOutcomes :
           setupExecutionEnvironment(inp, o).threw
               <=> (inp.pythonRequirementsTxt = "reqs" /\ ~o.pythonInitAgain)
    /\ pc = "crashed" => (~isLocalMode /\ ~restoredFromMigration
                          /\ input.pythonRequirementsTxt = "reqs"
                          /\ ~initializationComplete)

ToolOperationFailed ==
    IF lastReq.op = "mcp execute"
    THEN lastResp.result # NoResult /\ NonZero(lastResp.result.exitCode)
    ELSE lastResp.opFailed

ToolAnswered == lastReq.op \in McpFileOps \cup {"mcp execute"} /\ lastResp # NoResp

OwnedByCallInFlight(f) ==
    \E i \in DOMAIN runs : InFlight(runs[i]) /\ f.name \in runs[i].tempFiles

\* C28 (temp script files never accumulate): on every path of executeCode and
\* of executeInitScript the temp file the call created is removed before it
\* returns, so /tmp holds no script file but those of the calls in flight, and
\* none once every call has completed.
C28_TempFilesNeverAccumulate ==
    /\ \A f \in tmpFiles : OwnedByCallInFlight(f)
    /\ (\A i \in DOMAIN runs : ~InFlight(runs[i])) => tmpFiles = NoTmpFiles

\* what holds of the cleanup: a file that was written in full is unlinked on
\* every path (exit 0, non-zero exit, timeout, rejected cwd, spawn error); a
\* file stays behind only when the write itself was rejected after the file
\* had been created, because the path is pushed after the write
C28_OnlyFailedWritesRemain ==
    /\ \A f \in tmpFiles : f.content = "partial" \/ OwnedByCallInFlight(f)
    /\ \A i \in DOMAIN runs :
          (runs[i].phase = "done" /\ runs[i].result # "write failed")
              => ~\E f \in tmpFiles : f.name = runs[i].tempFile /\ f.by = i

\* two calls in flight at the same time, each with a script file
TogetherInFlight(i, j) ==
    /\ i # j
    /\ InFlight(runs[i]) /\ runs[i].tempFiles # {}
    /\ InFlight(runs[j]) /\ runs[j].tempFiles # {}

\* the call ran, or lost, a script that is not its own
Disturbed(i) ==
    \/ runs[i].ran \notin {"none", runs[i].code}
    \/ runs[i].phase = "done" /\ runs[i].tempFiles # {} /\ runs[i].unlinked # {i}

C30_ReadinessMonotone ==
    /\ [][/\ initializationComplete' # initializationComplete
               => (~initializationComplete /\ initializationComplete'
                     /\ pc = "complete" /\ lastReq = NoReq /\ lastReq' = NoReq)
          /\ initializationError' # initializationError
               => (~initializationComplete /\ ~initializationComplete'
                     /\ pc = "init" /\ initializationError = NoError)
          /\ (pc \in {"listen", "serving", "migrated"} \/ exit.triggered)
               => /\ initializationComplete' = initializationComplete
                  /\ initializationError' = initializationError]_vars
    /\ [](pc \in {"listen", "serving", "migrated"} => initializationComplete)
    /\ [](lastReq # NoReq => initializationComplete)

C30_Witness ==
    /\ pc = "migrated"
    /\ initializationComplete
    /\ initializationError # NoError
    /\ exit.triggered
    /\ lastReq.op = "GET /health"
    /\ lastResp.status = 503


\* C31 (the checkpoint never throws): whichever step of saveMigrationState
\* fails (the scan, pip freeze, the read of the startup marker, the tar command,
\* the upload of the tarball or of the manifest), the function returns without
\* raising, and the 'migrating' handler has returned
C31_CheckpointNeverThrows ==
    /\ ~migrating.threw
    /\ migrating.handled => pc = "migrated"

\* a handler whose checkpoint failed at the tar command, with changed files
\* to pack
C31_Witness ==
    /\ pc = "migrated"
    /\ migrating.handled
    /\ migrating.caught = "tar"
    /\ \E path \in MigPaths : disk[path].exists

\* what the restore of this start logged, once it has run
RestoreEntry(log) == log[Len(log)]

\* C32 (restore outcome): restoreMigrationState never throws; it returns false
\* when the manifest is absent, when the tarball is missing, and when the
\* download or the extraction raises; it returns true when both are present
\* and nothing was raised, whether or not apt, pip or npm could install again
C32_RestoreReturns ==
    [][(pc = "restore" /\ pc' # "restore" /\ ~isLocalMode) =>
          /\ pc' = "setup"
          /\ (\/ ~kv.manifest.present
              \/ ~kv.tarball.present
              \/ RestoreEntry(startupLog')[3] # "nothing") => ~restoredFromMigration'
          /\ (/\ kv.manifest.present
              /\ kv.tarball.present
              /\ RestoreEntry(startupLog')[3] = "nothing") => restoredFromMigration'
      ]_vars

\* C32 (restore outcome), its last part: whenever the restore returned false,
\* the normal installation of the environment runs
C32_FalseMeansSetup ==
    (/\ ~isLocalMode
     /\ ~restoredFromMigration
     /\ pc \notin {"restore", "setup", "crashed", "migrated"})
        => \E i \in 1..Len(startupLog) : startupLog[i][1] = "install"

\* C32 (restore outcome): both parts
C32_RestoreOutcome == C32_RestoreReturns /\ []C32_FalseMeansSetup

\* a restore that returned true although none of the three installations
\* succeeded
C32_Witness ==
    /\ restoredFromMigration
    /\ pkgs.failed = {"apt", "pip", "npm"}
    /\ disk[UserFileA].exists

\* C33 (Node packages survive migration): at a checkpoint of a start that wrote
\* its marker, every Node package installed until then, by the setup from the
\* Actor input or by the user with npm install --save, is named in the
\* package.json packed into the tarball; and after the restore of the next
\* start, unless npm install failed, all of them are installed again
C33_NodePackagesSurvive ==
    [][/\ (pc = "serving" /\ pc' = "migrated" /\ migrationHandler /\ startupMarker)
            => pkgs.npm \subseteq kv'.tarball.packageJson.deps
       /\ (pc = "restore" /\ restoredFromMigration' /\ boot = 2
               /\ "npm" \notin pkgs'.failed)
            => kv.tarball.packageJson.deps \subseteq pkgs'.npm
      ]_vars

\* the packages the user installed with npm install --save are in the
\* package.json of the tarball together with those of the input, and the
\* restore installs what that package.json names
C33_SavedPackagesSurvive ==
    [][/\ (pc = "serving" /\ pc' = "migrated" /\ migrationHandler /\ startupMarker
               /\ userWrote.npm # {} /\ boot = 1)
            => pkgs.npm \subseteq kv'.tarball.packageJson.deps
       /\ (pc = "restore" /\ restoredFromMigration' /\ boot = 2
               /\ "npm" \notin pkgs'.failed)
            => kv.tarball.packageJson.deps \subseteq pkgs'.npm
      ]_vars

\* the checkpoint of this start went through
Checkpointed ==
    /\ pc = "migrated"
    /\ migrating.handled
    /\ migrating.caught = "nothing"

\* the files changed since the marker was written
ChangedSinceMarker ==
    {path \in MigPaths : disk[path].exists /\ newerThanMarker(disk[path], boot)}
    \cup {path \in {PACKAGE_JSON} : pkgs.packageJson.newer}

\* C34 (changed-file selection is exact): the path list of the manifest holds
\* precisely the files newer than the startup marker that are not an excluded
\* directory's own path or below one; a changed file under a directory whose
\* name only begins with an excluded name is listed
C34_SelectionExact ==
    Checkpointed =>
        kv.manifest.paths = {path \in ChangedSinceMarker : ~prunedByFind(path)}

\* the list holds precisely the changed files whose path does not begin, as a
\* string, with an excluded path
C34_SelectionByPrefix ==
    Checkpointed =>
        kv.manifest.paths = {path \in ChangedSinceMarker : ~filteredOut(path)}

\* the manifest in the store, if there is one, has the tarball of its own
\* checkpoint beside it
SameCheckpoint(store) ==
    store.manifest.present =>
        /\ store.tarball.present
        /\ store.tarball.createdAt = store.manifest.createdAt

C35_OneResponse ==
    /\ httpRes.heads <= 1
    /\ [][httpRes.headersSent => httpRes'.heads <= httpRes.heads]_vars

\* the upstream of a /shell request failed after its answer had begun
C35_Witness ==
    /\ httpRes.kind = "shell"
    /\ httpRes.upstream = "failed"
    /\ httpRes.headersSent
    /\ ~httpRes.ended

\* the command of the request is empty once trimmed
CommandBlank == lastReq.command.present /\ trim(lastReq.command.text) = <<>>

\* C36 (a command empty after trimming is never executed): for a POST /exec
\* or an MCP execute whose command is only whitespace, in any language, no
\* child is spawned and the request ends in a validation failure or with
\* exitCode 1
C36_BlankCommandNeverRuns ==
    (lastReq.op \in {"POST /exec", "mcp execute"} /\ CommandBlank) =>
        /\ exec = Idle
        /\ lastResp # NoResp =>
              /\ lastResp.child = NoChild
              /\ lastResp.status = 400 \/ lastResp.result.exitCode = Num(1)

\* the same for the languages that executeCode runs: a blank command in js,
\* ts or py spawns nothing and ends with exitCode 1
C36_BlankCodeNeverRuns ==
    (/\ lastReq.op \in {"POST /exec", "mcp execute"}
     /\ CommandBlank
     /\ normalizeLanguage(lastReq.language) \in {"js", "ts", "py"}) =>
        /\ exec = Idle
        /\ lastResp # NoResp =>
              /\ lastResp.child = NoChild
              /\ lastResp.status = 400 \/ lastResp.result.exitCode = Num(1)

\* an execution result has been produced for the request
ResultProduced ==
    /\ lastReq.op \in {"POST /exec", "mcp execute"}
    /\ lastResp # NoResp
    /\ lastResp.result # NoResult

\* C37 (exitCode is always an integer): on a normal exit, a non-zero exit, a
\* kill at the timeout, a working directory that does not exist and an
\* overflow of the output buffer, the exitCode of the result is an integer,
\* never a string error code and never null
C37_ExitCodeInteger ==
    ResultProduced => lastResp.result.exitCode.t = "num"

\* the exitCode is an integer whenever the child ended by itself or by the
\* signal sent at the timeout, and it is never null
C37_ExitCodeOfEndedChild ==
    ResultProduced =>
        /\ lastResp.result.exitCode.t # "null"
        /\ lastResp.child.ended \in {"exit", "signal"}
              => lastResp.result.exitCode.t = "num"

\* C39 (single PTY child): however the child's exits, its failures to start
\* and the expiries of the respawn timer interleave, at most one PTY child is
\* alive and at most one respawn timer is pending
C39_SinglePtyChild ==
    /\ ttyd.alive \in {0, 1}
    /\ ttyd.timers \in {0, 1}
    /\ ttyd.alive + ttyd.timers <= 1

\* the second respawn timer is pending, and no child is alive
C39_Witness ==
    /\ ttyd.state = "waiting"
    /\ ttyd.exits = 2
    /\ ttyd.timers = 1
    /\ ttyd.alive = 0

IdleTicked == ~exit.ended /\ idleTimer.set /\ idleTimer'.at = idleTimer.at + CheckIntervalMs

====
